---- MODULE Spec2Model ----
(***************************************************************************)
(* A model of the Prism client (src/prism/prism.py): the bearer-token      *)
(* cache, the four HTTP gateway methods, and the list/search operations.   *)
(*                                                                         *)
(* Python values.  A str is a tuple of characters ("" is <<>>); an opaque  *)
(* string such as a token or a media type is a one-element tuple.  None is *)
(* the tuple <<"None">>.  A dict is a function from keys to values.  An    *)
(* int that may be None uses NoneInt.                                      *)
(***************************************************************************)
EXTENDS Integers, Sequences, FiniteSets, TLC

VARIABLES
    bearer_token,            \* Prism.bearer_token
    bearer_token_timestamp,  \* Prism.bearer_token_timestamp
    CONTENT_APP_JSON,        \* Prism.CONTENT_APP_JSON (a dict shared by all calls)
    CONTENT_FORM,            \* Prism.CONTENT_FORM
    now,                     \* time.time()
    idp_status,              \* status the token endpoint answers with
    issued,                  \* number of tokens the token endpoint has issued
    issuedAt,                \* history: token -> time of issue
    revoked,                 \* history: tokens dropped by reset_bearer_token
    call,                    \* the last public call: its inputs, requests and result
    activity,                \* the tenant: state of the activity a data change started
    upload,                  \* the dataChanges upload command: where it is, what it polled
    threads                  \* two threads that share the client: where each is, what it read

vars == <<bearer_token, bearer_token_timestamp, CONTENT_APP_JSON, CONTENT_FORM,
          now, idp_status, issued, issuedAt, revoked, call, activity, upload, threads>>

----------------------------------------------------------------------------
(* Bounds of the model *)

MaxNow == 902        \* the clock stops here
MaxTokens == 2       \* tokens the token endpoint issues
MaxNesting == 3      \* nested gateway calls before the interpreter gives up

TickSteps == {450, 451}

----------------------------------------------------------------------------
(* Python values *)

None == <<"None">>
EmptyStr == <<>>
NoneInt == -1
NoError == "ok"
EmptyDict == [k \in {} |-> None]

TokenPool == << <<"tok1">>, <<"tok2">>, <<"tok3">>, <<"tok4">>, <<"tok5">>, <<"tok6">> >>
Tokens == {TokenPool[i] : i \in 1..Len(TokenPool)}

TokenLifetime == 900
MissingUrlStatus == 600
ConnectionError == 0     \* requests raised instead of answering

(* A URL value handed to the gateway, with the query parameters that go   *)
(* with it: the path, the format/type parameter, one filter parameter     *)
(* (name, alias, searchString or query) and the limit/offset pairs, in    *)
(* the order they appear.                                                 *)
NoFilter == [key |-> "none", val |-> EmptyStr]
Filter(key, val) == [key |-> key, val |-> val]

Url(path, fmt, filter, paging) ==
    [kind |-> "str", path |-> path, fmt |-> fmt, filter |-> filter, paging |-> paging]
NoneUrl == [kind |-> "None", path |-> <<>>, fmt |-> None, filter |-> NoFilter, paging |-> <<>>]
EmptyUrl == [kind |-> "str", path |-> <<>>, fmt |-> None, filter |-> NoFilter, paging |-> <<>>]
IntUrl == [kind |-> "int", path |-> <<"42">>, fmt |-> None, filter |-> NoFilter, paging |-> <<>>]

token_endpoint == Url(<<"ccx", "oauth2", "token">>, None, NoFilter, <<>>)
prism_endpoint(op) == Url(<<"prismAnalytics">> \o op, None, NoFilter, <<>>)
wql_endpoint(op) == Url(<<"wql">> \o op, None, NoFilter, <<>>)

(* What a public call hands back. *)
PyNone == [kind |-> "None"]
PyStr(s) == [kind |-> "str", val |-> s]
PyJson(body) == [kind |-> "json", val |-> body]
PyResponse(resp) == [kind |-> "response", status_code |-> resp.status_code]

(* url is None or not isinstance(url, str) or len(url) == 0 *)
UrlMissing(url) ==
    url.kind = "None" \/ url.kind # "str" \/ Len(url.path) = 0

----------------------------------------------------------------------------
(* The world an operation runs in: the client's fields, the token endpoint *)
(* and the log of what the operation sent.                                 *)

NoResp == [status_code |-> ConnectionError, body |-> None]

World ==
    [bearer_token |-> bearer_token,
     bearer_token_timestamp |-> bearer_token_timestamp,
     CONTENT_APP_JSON |-> CONTENT_APP_JSON,
     CONTENT_FORM |-> CONTENT_FORM,
     issued |-> issued,
     issuedAt |-> issuedAt,
     sent |-> <<>>,
     raised |-> NoError,
     ret |-> EmptyStr,
     resp |-> NoResp,
     depth |-> 0,
     exchanges |-> 0,
     gets |-> 0]

(* The dict a headers argument refers to: None (a new dict per call) or one *)
(* of the client's shared dicts.                                            *)
HeadersOf(w, hdr) ==
    IF hdr = "CONTENT_APP_JSON" THEN w.CONTENT_APP_JSON
    ELSE IF hdr = "CONTENT_FORM" THEN w.CONTENT_FORM
    ELSE EmptyDict

(* headers[key] = value, on the object the caller passed *)
SetHeader(w, hdr, key, value) ==
    IF hdr = "CONTENT_APP_JSON"
      THEN [w EXCEPT !.CONTENT_APP_JSON = (key :> value) @@ @]
    ELSE IF hdr = "CONTENT_FORM"
      THEN [w EXCEPT !.CONTENT_FORM = (key :> value) @@ @]
    ELSE w

Bearer(token) == <<"Bearer ">> \o token

(* The token endpoint: a 200 carries a token never issued before. *)
TokenResponse(w, status) ==
    IF status = 200
      THEN [status_code |-> 200, body |-> TokenPool[w.issued + 1]]
      ELSE [status_code |-> status, body |-> None]

(* The body of an answer that is not a success: an error document, or    *)
(* nothing at all for 204 (No Content).                                   *)
NoBody == [kind |-> "empty"]
ErrorBody(status) ==
    IF status = 204 THEN NoBody ELSE [kind |-> "error", error |-> status]

(* requests.<verb>(url, headers=headers, ...): the request goes out and the *)
(* server's answer comes back, or requests raises.                          *)
Send(w, verb, url, headers, status, body) ==
    LET isExchange == url = token_endpoint
        resp == IF isExchange THEN TokenResponse(w, status)
                ELSE IF status \in {200, 201} THEN [status_code |-> status, body |-> body]
                ELSE [status_code |-> status, body |-> ErrorBody(status)]
        req == [verb |-> verb, url |-> url, headers |-> headers, depth |-> w.depth,
                answer |-> status]
        w1 == [w EXCEPT !.sent = Append(@, req)]
    IN  IF status = ConnectionError
          THEN [w1 EXCEPT !.raised = "ConnectionError"]
        ELSE IF isExchange /\ status = 200
          THEN [w1 EXCEPT !.resp = resp,
                          !.issued = @ + 1,
                          !.issuedAt = (resp.body :> now) @@ @,
                          !.exchanges = @ + 1]
        ELSE IF isExchange
          THEN [w1 EXCEPT !.resp = resp, !.exchanges = @ + 1]
        ELSE [w1 EXCEPT !.resp = resp]

(* Evaluate v once, then F of its value: a call followed by the code that  *)
(* uses its result.                                                        *)
Bind(v, F(_)) == CHOOSE r \in {F(x) : x \in {v}} : TRUE

RECURSIVE http_post(_, _, _, _, _, _)
RECURSIVE create_bearer_token(_)
RECURSIVE get_bearer_token(_)

(* "Authorization" not in headers [and caller != "create_bearer_token"] *)
InjectsBearerGet(headers, caller) ==
    "Authorization" \notin DOMAIN headers

InjectsBearerNoCallerCheck(headers, caller) ==
    "Authorization" \notin DOMAIN headers

InjectsBearer(headers, caller) ==
    "Authorization" \notin DOMAIN headers /\ caller # "create_bearer_token"

(* The else branch shared by the four gateway methods: fill in the         *)
(* Authorization header through get_bearer_token, then send.               *)
GatewaySend(w, verb, url, hdr, inject, addContentType, status, body) ==
    LET w2 == IF inject THEN SetHeader(w, hdr, "Authorization", Bearer(w.ret))
              ELSE w
        h2 == IF inject
                THEN ("Authorization" :> Bearer(w.ret)) @@ HeadersOf(w, hdr)
                ELSE HeadersOf(w, hdr)
        ct == addContentType /\ "Content-Type" \notin DOMAIN h2
        w3 == IF ct THEN SetHeader(w2, hdr, "Content-Type", <<"application/json">>)
              ELSE w2
        h3 == IF ct THEN ("Content-Type" :> <<"application/json">>) @@ h2 ELSE h2
    IN  Send(w3, verb, url, h3, status, body)

Gateway(w, verb, url, hdr, inject, addContentType, status, body) ==
    IF w.depth >= MaxNesting
      THEN [w EXCEPT !.raised = "RecursionError"]
    ELSE
      Bind(IF inject THEN get_bearer_token([w EXCEPT !.depth = @ + 1])
                     ELSE [w EXCEPT !.depth = @ + 1],
           LAMBDA w1 :
             IF w1.raised # NoError THEN [w1 EXCEPT !.depth = w.depth]
             ELSE [GatewaySend(w1, verb, url, hdr, inject, addContentType, status, body)
                     EXCEPT !.depth = w.depth])

(* A missing URL: response is the dict {"status_code": 600, ...}, and the  *)
(* read of response.status_code that follows raises on a dict.             *)
MissingUrl(w) ==
    [w EXCEPT !.resp = [status_code |-> MissingUrlStatus, body |-> None],
              !.raised = "AttributeError"]

http_get(w, url, hdr, caller, status, body) ==
    IF UrlMissing(url) THEN MissingUrl(w)
    ELSE Gateway(w, "GET", url, hdr, InjectsBearerGet(HeadersOf(w, hdr), caller),
                 FALSE, status, body)

http_post(w, url, hdr, caller, status, body) ==
    IF UrlMissing(url) THEN MissingUrl(w)
    ELSE Gateway(w, "POST", url, hdr, InjectsBearer(HeadersOf(w, hdr), caller),
                 FALSE, status, body)

http_patch(w, url, hdr, caller, status, body) ==
    IF UrlMissing(url) THEN MissingUrl(w)
    ELSE Gateway(w, "PATCH", url, hdr, InjectsBearer(HeadersOf(w, hdr), caller),
                 FALSE, status, body)

http_put(w, url, hdr, caller, status, body) ==
    IF UrlMissing(url) THEN MissingUrl(w)
    ELSE Gateway(w, "PUT", url, hdr, InjectsBearer(HeadersOf(w, hdr), caller),
                 TRUE, status, body)

(* r.status_code == 200 *)
ExchangeSucceeded(status) == status = 200

(* the else branch of create_bearer_token *)
ExchangeFailedKeepsToken(w) == w

ExchangeFailedKeepsStamp(w) == [w EXCEPT !.bearer_token = None]

ExchangeFailed(w) ==
    [w EXCEPT !.bearer_token = None, !.bearer_token_timestamp = NoneInt]

create_bearer_token(w) ==
    Bind(http_post(w, token_endpoint, "CONTENT_FORM", "create_bearer_token",
                   idp_status, None),
         LAMBDA w1 :
           IF w1.raised # NoError THEN w1
           ELSE IF ExchangeSucceeded(w1.resp.status_code)
             THEN [w1 EXCEPT !.bearer_token = w1.resp.body,
                             !.bearer_token_timestamp = now]
           ELSE ExchangeFailed(w1))

(* self.bearer_token is None or (time.time() - self.bearer_token_timestamp) > 900 *)
TokenStaleAtLifetime(token, timestamp) ==
    token = None \/ (now - timestamp) >= TokenLifetime

TokenStale(token, timestamp) ==
    token = None \/ (now - timestamp) > TokenLifetime

get_bearer_token(w) ==
    IF w.bearer_token # None /\ w.bearer_token_timestamp = NoneInt
      THEN [w EXCEPT !.raised = "TypeError", !.gets = @ + 1]      \* float - None
    ELSE
    Bind(IF TokenStale(w.bearer_token, w.bearer_token_timestamp)
           THEN create_bearer_token([w EXCEPT !.gets = @ + 1])
           ELSE [w EXCEPT !.gets = @ + 1],
         LAMBDA w1 :
           IF w1.raised # NoError THEN w1
           ELSE IF w1.bearer_token = None THEN [w1 EXCEPT !.ret = EmptyStr]
           ELSE [w1 EXCEPT !.ret = w1.bearer_token])

ResetKeepsToken(w) == w

reset_bearer_token(w) ==
    [w EXCEPT !.bearer_token = None, !.bearer_token_timestamp = NoneInt]

----------------------------------------------------------------------------
(* State *)

NoArgs == [none |-> TRUE]

NoCall ==
    [op |-> "none", args |-> NoArgs,
     before |-> [token |-> None, timestamp |-> NoneInt],
     sent |-> <<>>, raised |-> NoError, ret |-> PyNone,
     exchanges |-> 0, gets |-> 0]

(* the upload command before it is started *)
Idle == [pc |-> "idle", wait |-> FALSE, started |-> 0, seen |-> <<>>, at |-> <<>>]

Threads == {1, 2}

(* a thread that is not in a call: what it read last and what it got back *)
ThreadIdle ==
    [pc |-> "idle", op |-> "none", token |-> None, stamp |-> NoneInt, resp |-> None,
     ret |-> None, cached |-> None]

Init ==
    /\ threads = [t \in Threads |-> ThreadIdle]
    /\ activity = "none"
    /\ upload = Idle
    /\ bearer_token = None
    /\ bearer_token_timestamp = NoneInt
    /\ CONTENT_APP_JSON = ("Content-Type" :> <<"application/json">>)
    /\ CONTENT_FORM = ("Content-Type" :> <<"application/x-www-form-urlencoded">>)
    /\ now = 0
    /\ idp_status = 200
    /\ issued = 0
    /\ issuedAt = [k \in {} |-> 0]
    /\ revoked = {}
    /\ call = NoCall

(* What a call leaves behind: the client's fields as the call left them,   *)
(* and the record of the call.                                             *)
CallRecord(w, op, args, ret) ==
    [op |-> op, args |-> args,
     before |-> [token |-> bearer_token, timestamp |-> bearer_token_timestamp],
     sent |-> w.sent, raised |-> w.raised,
     ret |-> IF w.raised # NoError THEN PyNone ELSE ret,
     exchanges |-> w.exchanges, gets |-> w.gets]

Commit(w, rec) ==
    /\ bearer_token' = w.bearer_token
    /\ bearer_token_timestamp' = w.bearer_token_timestamp
    /\ CONTENT_APP_JSON' = w.CONTENT_APP_JSON
    /\ CONTENT_FORM' = w.CONTENT_FORM
    /\ issued' = w.issued
    /\ issuedAt' = w.issuedAt
    /\ call' = rec
    /\ UNCHANGED <<now, idp_status>>

----------------------------------------------------------------------------
(* Environment *)

Tick ==
    \E d \in TickSteps :
        /\ now + d <= MaxNow
        /\ now' = now + d
        /\ call' = NoCall
        /\ UNCHANGED <<bearer_token, bearer_token_timestamp, CONTENT_APP_JSON,
                       CONTENT_FORM, idp_status, issued, issuedAt, revoked,
                       activity, upload, threads>>

IdpStatuses == {200, 401}

SetIdp ==
    \E s \in IdpStatuses \ {idp_status} :
        /\ idp_status' = s
        /\ call' = NoCall
        /\ UNCHANGED <<bearer_token, bearer_token_timestamp, CONTENT_APP_JSON,
                       CONTENT_FORM, now, issued, issuedAt, revoked, activity, upload, threads>>

----------------------------------------------------------------------------
(* Token manager calls *)

GetBearerToken ==
    /\ issued < MaxTokens
    /\ \E w \in {get_bearer_token(World)} :
           Commit(w, CallRecord(w, "get_bearer_token", NoArgs, PyStr(w.ret)))
    /\ UNCHANGED <<revoked, activity, upload, threads>>

CreateBearerToken ==
    /\ issued < MaxTokens
    /\ \E w \in {create_bearer_token(World)} :
           Commit(w, CallRecord(w, "create_bearer_token", NoArgs, PyNone))
    /\ UNCHANGED <<revoked, activity, upload, threads>>

ResetBearerToken ==
    /\ \E w \in {reset_bearer_token(World)} :
           Commit(w, CallRecord(w, "reset_bearer_token", NoArgs, PyNone))
    /\ revoked' = IF bearer_token = None THEN revoked ELSE revoked \cup {bearer_token}
    /\ UNCHANGED <<activity, upload, threads>>

----------------------------------------------------------------------------
(* Gateway calls *)

GatewayUrls == {NoneUrl, EmptyUrl, IntUrl, prism_endpoint(<<"tables">>)}
GatewayStatuses == {200, 500, ConnectionError}
OpaqueBody == <<"json">>

HttpGet ==
    \E url \in GatewayUrls, status \in GatewayStatuses :
        /\ issued < MaxTokens
        /\ UrlMissing(url) => status = 200
        /\ \E w \in {http_get(World, url, "None", "user", status, OpaqueBody)} :
               Commit(w, CallRecord(w, "http_get", [url |-> url, status |-> status],
                                    PyResponse(w.resp)))
        /\ UNCHANGED <<revoked, activity, upload, threads>>

HttpPost ==
    \E url \in GatewayUrls, status \in GatewayStatuses :
        /\ issued < MaxTokens
        /\ UrlMissing(url) => status = 200
        /\ \E w \in {http_post(World, url, "None", "user", status, OpaqueBody)} :
               Commit(w, CallRecord(w, "http_post", [url |-> url, status |-> status],
                                    PyResponse(w.resp)))
        /\ UNCHANGED <<revoked, activity, upload, threads>>

HttpPatch ==
    \E url \in GatewayUrls, status \in GatewayStatuses :
        /\ issued < MaxTokens
        /\ UrlMissing(url) => status = 200
        /\ \E w \in {http_patch(World, url, "None", "user", status, OpaqueBody)} :
               Commit(w, CallRecord(w, "http_patch", [url |-> url, status |-> status],
                                    PyResponse(w.resp)))
        /\ UNCHANGED <<revoked, activity, upload, threads>>

HttpPut ==
    \E url \in GatewayUrls, status \in GatewayStatuses :
        /\ issued < MaxTokens
        /\ UrlMissing(url) => status = 200
        /\ \E w \in {http_put(World, url, "None", "user", status, OpaqueBody)} :
               Commit(w, CallRecord(w, "http_put", [url |-> url, status |-> status],
                                    PyResponse(w.resp)))
        /\ UNCHANGED <<revoked, activity, upload, threads>>

(* tables_patch: http_patch with the shared CONTENT_APP_JSON dict *)
tables_patch(w, id, status) ==
    Bind(http_patch(w, prism_endpoint(<<"tables", id>>), "CONTENT_APP_JSON",
                    "tables_patch", status, OpaqueBody),
         LAMBDA w1 :
           IF w1.raised # NoError THEN w1
           ELSE IF w1.resp.status_code = 200 THEN [w1 EXCEPT !.ret = PyJson(w1.resp.body)]
           ELSE [w1 EXCEPT !.ret = PyNone])

OpStatuses == {200, 201, 500}

TablesPatch ==
    \E status \in OpStatuses :
        /\ issued < MaxTokens
        /\ \E w \in {tables_patch(World, "id1", status)} :
               Commit(w, CallRecord(w, "tables_patch", [status |-> status], w.ret))
        /\ UNCHANGED <<revoked, activity, upload, threads>>

Next ==
    \/ Tick
    \/ SetIdp
    \/ GetBearerToken
    \/ CreateBearerToken
    \/ ResetBearerToken
    \/ HttpGet
    \/ HttpPost
    \/ HttpPatch
    \/ HttpPut
    \/ TablesPatch

Spec == Init /\ [][Next]_vars

----------------------------------------------------------------------------
(* Strings *)

LowerChar(c) ==
    CASE c = "A" -> "a" [] c = "B" -> "b" [] c = "C" -> "c" [] c = "G" -> "g"
      [] c = "S" -> "s" [] c = "V" -> "v" [] c = "Z" -> "z" [] OTHER -> c

(* str.lower() *)
Lower(str) == [i \in 1..Len(str) |-> LowerChar(str[i])]

UpperChar(c) == CASE c = "a" -> "A" [] c = "b" -> "B" [] OTHER -> c
Upper(str) == [i \in 1..Len(str) |-> UpperChar(str[i])]

(* sub in str, str.find(sub) != -1 *)
Contains(sub, str) ==
    \E i \in 0..(Len(str) - Len(sub)) : SubSeq(str, i + 1, i + Len(sub)) = sub

(* name.replace(" ", "_") *)
ReplaceSpaces(str) == [i \in 1..Len(str) |-> IF str[i] = " " THEN "_" ELSE str[i]]

(* urlparse.quote(str) and the server's decoding of it *)
Quote(str) == [i \in 1..Len(str) |-> IF str[i] = " " THEN "%20" ELSE str[i]]
Unquote(str) == [i \in 1..Len(str) |-> IF str[i] = "%20" THEN " " ELSE str[i]]

(* str.strip() *)
RECURSIVE Strip(_)
Strip(str) ==
    IF str = <<>> THEN str
    ELSE IF str[1] = " " THEN Strip(Tail(str))
    ELSE IF str[Len(str)] = " " THEN Strip(SubSeq(str, 1, Len(str) - 1))
    ELSE str

Min(a, b) == IF a < b THEN a ELSE b

----------------------------------------------------------------------------
(* The tenant: a collection of n resources behind each list endpoint.     *)
(* Resource i has a name of its own (names are unique in a tenant), the    *)
(* i-th word over {a, b}, and the same word in capitals as display name.   *)

Alphabet == <<"a", "b">>

RECURSIVE ItemName(_)
ItemName(i) ==
    IF i = 0 THEN <<>>
    ELSE ItemName((i - 1) \div 2) \o <<Alphabet[((i - 1) % 2) + 1]>>

ItemDisplayName(i) == Upper(ItemName(i))

(* the table a bucket loads into *)
ItemTarget(i) == ItemName(((i - 1) % 2) + 1)

(* the resource that carries a name, 0 when none does *)
RECURSIVE IndexOfWord(_)
IndexOfWord(name) ==
    IF name = <<>> THEN 0
    ELSE 2 * IndexOfWord(SubSeq(name, 1, Len(name) - 1))
           + (IF name[Len(name)] = "a" THEN 1 ELSE 2)

IndexOf(name) ==
    IF \A i \in 1..Len(name) : name[i] \in {"a", "b"} THEN IndexOfWord(name) ELSE 0

(* The resources a filter parameter selects, in the server's order. *)
ServerItems(n, filter) ==
    IF filter.key \in {"name", "alias"}
      THEN IF IndexOf(Unquote(filter.val)) \in 1..n
             THEN <<IndexOf(Unquote(filter.val))>> ELSE <<>>
    ELSE IF filter.key = "searchString"
      THEN SelectSeq([i \in 1..n |-> i],
                     LAMBDA i : Contains(Lower(Unquote(filter.val)), Lower(ItemName(i))))
    ELSE [i \in 1..n |-> i]

(* The server reads one limit/offset pair of the URL: the first or the    *)
(* last when a URL repeats them.                                           *)
PagingOf(url, dup) ==
    IF dup = "first" THEN url.paging[1] ELSE url.paging[Len(url.paging)]

(* The JSON body of a 200 answer to a list request. *)
ServerPage(env, url) ==
    LET items == ServerItems(env.n, url.filter)
        pg == PagingOf(url, env.dup)
    IN  [kind |-> "page",
         total |-> Len(items),
         data |-> SubSeq(items, pg.offset + 1, Min(pg.offset + pg.limit, Len(items)))]

(* The JSON body of a 200 answer to a lookup by id. *)
ServerResource(id) == [kind |-> "resource", id |-> id]

(* The status of the k-th request of a call. *)
PageStatus(env, k) == IF k = env.failAt THEN env.failStatus ELSE 200

Collection(data) == [kind |-> "page", total |-> Len(data), data |-> data]

MaxPages == 5        \* requests of one call before the model stops following it

----------------------------------------------------------------------------
(* tables_get *)

TableMatches(name, i) ==
    \/ Contains(Lower(name), Lower(ItemName(i)))
    \/ Contains(Lower(name), Lower(ItemDisplayName(i)))

TablesUrl(params) ==
    Url(<<"prismAnalytics", "tables">>, params.type, params.filter,
        <<[limit |-> params.limit, offset |-> params.offset]>>)

RECURSIVE tables_loop(_, _, _, _, _, _, _)
tables_loop(w, name, search, params, acc, env, k) ==
    IF k > MaxPages THEN [w EXCEPT !.raised = "NeverReturns"]
    ELSE
    Bind(http_get(w, TablesUrl(params), "None", "tables_get", PageStatus(env, k),
                  ServerPage(env, TablesUrl(params))),
         LAMBDA w1 :
           IF w1.raised # NoError THEN w1
           ELSE IF w1.resp.status_code # 200
             THEN [w1 EXCEPT !.ret = PyJson(Collection(acc))]
           ELSE IF ~search /\ name # None
             THEN [w1 EXCEPT !.ret = PyJson(w1.resp.body)]
           ELSE
             LET tables == w1.resp.body
                 match_tables == IF name # None
                                   THEN SelectSeq(tables.data,
                                                  LAMBDA i : TableMatches(name, i))
                                   ELSE tables.data
             IN  IF Len(tables.data) < params.limit
                   THEN [w1 EXCEPT !.ret = PyJson(Collection(acc \o match_tables))]
                 ELSE IF search
                   THEN tables_loop(w1, name, search,
                                    [params EXCEPT !.offset = @ + params.limit],
                                    acc \o match_tables, env, k + 1)
                 ELSE [w1 EXCEPT !.ret = PyJson(Collection(acc \o match_tables))])

(* the lookup by id shared by tables_get, buckets_get and dataChanges_get *)
IdLookup(w, url, caller, id, env) ==
    Bind(http_get(w, url, "None", caller, PageStatus(env, 1), ServerResource(id)),
         LAMBDA w1 :
           IF w1.raised # NoError THEN w1
           ELSE IF w1.resp.status_code = 200
             THEN [w1 EXCEPT !.ret = PyJson(w1.resp.body)]
           ELSE [w1 EXCEPT !.ret = PyNone])

(* the parameters of the first page request *)
TablesLimitForced(limit) == limit = NoneInt

TablesParams(name, limit, offset, output_type, search) ==
    LET p0 == [limit |-> IF limit # NoneInt THEN limit ELSE 100,
               offset |-> IF offset # NoneInt THEN offset ELSE 0,
               type |-> output_type,
               filter |-> NoFilter]
        p1 == IF ~search /\ name # None
                THEN [p0 EXCEPT !.filter = Filter("name", ReplaceSpaces(name)),
                                !.limit = 1, !.offset = 0]
                ELSE p0
    IN  IF TablesLimitForced(limit)
          THEN [p1 EXCEPT !.limit = 100, !.offset = 0]
          ELSE p1

tables_get(w, name, id, limit, offset, type_, search, env) ==
    LET output_type == IF type_ \in {"full", "summary", "permissions"}
                         THEN type_ ELSE "summary"
    IN  IF id # None
          THEN IdLookup(w, Url(<<"prismAnalytics", "tables", id>>, output_type,
                               NoFilter, <<>>),
                        "tables_get", id, env)
          ELSE tables_loop(w, name,
                           IF limit = NoneInt THEN TRUE ELSE search,
                           TablesParams(name, limit, offset, output_type, search),
                           <<>>, env, 1)

----------------------------------------------------------------------------
(* buckets_get *)

BucketMatches(name, table_name, search, i) ==
    IF name # None
      THEN Contains(name, ItemName(i)) \/ Contains(name, ItemDisplayName(i))
    ELSE IF table_name # None
      THEN \/ table_name = ItemTarget(i)
           \/ (search /\ Contains(Lower(table_name), Lower(ItemTarget(i))))
    ELSE TRUE

BucketsUrl(params) ==
    Url(<<"prismAnalytics", "buckets">>, params.type, params.filter,
        <<[limit |-> params.limit, offset |-> params.offset]>>)

RECURSIVE buckets_loop(_, _, _, _, _, _, _, _)
buckets_loop(w, name, table_name, search, params, acc, env, k) ==
    IF k > MaxPages THEN [w EXCEPT !.raised = "NeverReturns"]
    ELSE
    Bind(http_get(w, BucketsUrl(params), "None", "buckets_get", PageStatus(env, k),
                  ServerPage(env, BucketsUrl(params))),
         LAMBDA w1 :
           IF w1.raised # NoError THEN w1
           ELSE IF w1.resp.status_code # 200
             THEN [w1 EXCEPT !.ret = PyJson(Collection(acc))]
           ELSE IF ~search /\ name # None
             THEN [w1 EXCEPT !.ret = PyJson(w1.resp.body)]
           ELSE
             LET buckets == w1.resp.body
                 match_buckets ==
                     SelectSeq(buckets.data,
                               LAMBDA i : BucketMatches(name, table_name, search, i))
             IN  IF Len(buckets.data) < params.limit
                   THEN [w1 EXCEPT !.ret = PyJson(Collection(acc \o match_buckets))]
                 ELSE IF search
                   THEN buckets_loop(w1, name, table_name, search,
                                     [params EXCEPT !.offset = @ + params.limit],
                                     acc \o match_buckets, env, k + 1)
                 ELSE [w1 EXCEPT !.ret = PyJson(Collection(acc \o match_buckets))])

BucketsParams(name, limit, offset, output_type, search) ==
    LET p0 == [limit |-> IF limit # NoneInt THEN limit ELSE 100,
               offset |-> IF offset # NoneInt THEN offset ELSE 0,
               type |-> output_type,
               filter |-> NoFilter]
    IN  IF ~search /\ name # None
          THEN [p0 EXCEPT !.filter = Filter("name", name), !.limit = 1, !.offset = 0]
          ELSE [p0 EXCEPT !.limit = 100, !.offset = 0]

buckets_get(w, id, name, limit, offset, type_, table_name, search, env) ==
    LET output_type == IF type_ \in {"full", "summary"} THEN type_ ELSE "summary"
    IN  IF id # None
          THEN IdLookup(w, Url(<<"prismAnalytics", "buckets", id>>, output_type,
                               NoFilter, <<>>),
                        "buckets_get", id, env)
          ELSE buckets_loop(w, name, table_name,
                            IF ~search /\ name # None THEN search ELSE TRUE,
                            BucketsParams(name, limit, offset, output_type, search),
                            <<>>, env, 1)

----------------------------------------------------------------------------
(* dataChanges_get *)

DataChangeMatches(name, i) ==
    Contains(name, ItemName(i)) \/ Contains(name, ItemDisplayName(i))

DataChangesUrl(output_type, search_limit, search_offset, name_param) ==
    Url(<<"prismAnalytics", "dataChanges">>, output_type, name_param,
        <<[limit |-> search_limit, offset |-> search_offset]>>)

(* offset += search_limit, on the caller's offset argument *)
AdvanceOffsetArgument(w, offset, search_limit) ==
    IF offset = NoneInt THEN [w EXCEPT !.raised = "TypeError"] ELSE w

RECURSIVE dataChanges_loop(_, _, _, _, _, _, _, _, _, _, _)
dataChanges_loop(w, name, searching, output_type, search_limit, search_offset, name_param, offset, acc, env, k) ==
    IF k > MaxPages THEN [w EXCEPT !.raised = "NeverReturns"]
    ELSE
    Bind(http_get(w, DataChangesUrl(output_type, search_limit, search_offset, name_param),
                  "None", "dataChanges_get", PageStatus(env, k),
                  ServerPage(env, DataChangesUrl(output_type, search_limit,
                                                 search_offset, name_param))),
         LAMBDA w1 :
           IF w1.raised # NoError THEN w1
           ELSE IF w1.resp.status_code # 200
             THEN [w1 EXCEPT !.ret = PyJson(Collection(acc))]
           ELSE IF ~searching
             THEN [w1 EXCEPT !.ret = PyJson(Collection(acc \o w1.resp.body.data))]
           ELSE
             LET return_json == w1.resp.body
                 acc1 == acc \o SelectSeq(return_json.data,
                                          LAMBDA i : DataChangeMatches(name, i))
             IN  IF Len(return_json.data) < search_limit
                   THEN [w1 EXCEPT !.ret = PyJson(Collection(acc1))]
                 ELSE IF AdvanceOffsetArgument(w1, offset, search_limit).raised # NoError
                   THEN AdvanceOffsetArgument(w1, offset, search_limit)
                 ELSE dataChanges_loop(w1, name, searching, output_type, search_limit,
                                       search_offset, name_param,
                                       offset + search_limit, acc1, env, k + 1))

dataChanges_get(w, name, id, limit, offset, type_, search, env) ==
    LET output_type == IF type_ \in {"summary", "full"} THEN type_ ELSE "summary"
        limit0 == IF limit # NoneInt /\ limit > 0 THEN limit ELSE 500
        offset0 == IF offset # NoneInt /\ offset > 0 THEN offset ELSE 0
        named == name # None /\ Len(name) > 0
        searching == named /\ search
    IN  IF id # None /\ Len(id) > 0
          THEN IdLookup(w, Url(<<"prismAnalytics", "dataChanges", id>>, output_type,
                               NoFilter, <<>>),
                        "dataChanges_get", id, env)
        ELSE IF searching
          THEN dataChanges_loop(w, name, TRUE, output_type, 500, 0, NoFilter,
                                offset, <<>>, env, 1)
        ELSE IF named
          THEN dataChanges_loop(w, name, FALSE, output_type, 1, 0,
                                Filter("name", Quote(name)), offset, <<>>, env, 1)
        ELSE dataChanges_loop(w, name, FALSE, output_type, limit0, offset0, NoFilter,
                              offset, <<>>, env, 1)

----------------------------------------------------------------------------
(* wql_dataSources, wql_dataSources_fields, wql_data *)

(* response.json() *)
Json(w) ==
    IF w.resp.body = NoBody THEN [w EXCEPT !.raised = "JSONDecodeError"]
    ELSE [w EXCEPT !.ret = PyJson(w.resp.body)]

(* the lookup by id of wql_dataSources: return response.json() *)
DataSourceLookup(w, url, id, env) ==
    Bind(http_get(w, url, "None", "wql_dataSources", PageStatus(env, 1),
                  ServerResource(id)),
         LAMBDA w1 : IF w1.raised # NoError THEN w1 ELSE Json(w1))

DataSourcesUrl(filter, query_limit, query_offset) ==
    Url(<<"wql", "dataSources">>, None, filter,
        <<[limit |-> query_limit, offset |-> query_offset]>>)

RECURSIVE dataSources_loop(_, _, _, _, _, _, _, _)
dataSources_loop(w, filter, return_all, query_limit, query_offset, acc, env, k) ==
    IF k > MaxPages THEN [w EXCEPT !.raised = "NeverReturns"]
    ELSE
    Bind(http_get(w, DataSourcesUrl(filter, query_limit, query_offset), "None",
                  "wql_dataSources", PageStatus(env, k),
                  ServerPage(env, DataSourcesUrl(filter, query_limit, query_offset))),
         LAMBDA w1 :
           IF w1.raised # NoError THEN w1
           ELSE IF w1.resp.status_code # 200
             THEN [w1 EXCEPT !.ret = PyJson(Collection(acc))]
           ELSE IF ~return_all \/ Len(w1.resp.body.data) < query_limit
             THEN [w1 EXCEPT !.ret = PyJson(Collection(acc \o w1.resp.body.data))]
           ELSE dataSources_loop(w1, filter, return_all, query_limit,
                                 query_offset + query_limit,
                                 acc \o w1.resp.body.data, env, k + 1))

(* limit is not None and isinstance(limit, int) and 0 < limit <= 100 *)
LimitGiven(limit) == limit # NoneInt /\ 0 < limit /\ limit <= 100

wql_dataSources(w, id, alias, searchString, limit, offset, env) ==
    IF id # None
      THEN DataSourceLookup(w, wql_endpoint(<<"dataSources", id>>), id, env)
    ELSE
      dataSources_loop(w,
          IF alias # None THEN Filter("alias", Quote(alias))
          ELSE IF searchString # None THEN Filter("searchString", Quote(searchString))
          ELSE NoFilter,
          ~LimitGiven(limit),
          IF LimitGiven(limit) THEN limit ELSE 100,
          IF LimitGiven(limit) /\ offset # NoneInt /\ offset > 0 THEN offset ELSE 0,
          <<>>, env, 1)

(* url = f'{url}{url_separator}limit={query_limit}&offset={query_offset}': *)
(* every pass appends to the URL of the pass before.                       *)
AppendPaging(url, url_separator, query_limit, query_offset) ==
    [url EXCEPT !.paging = Append(@, [limit |-> query_limit, offset |-> query_offset,
                                      sep |-> url_separator])]

RECURSIVE fields_loop(_, _, _, _, _, _, _, _, _)
fields_loop(w, url, url_separator, return_all, query_limit, query_offset, acc, env, k) ==
    IF k > MaxPages THEN [w EXCEPT !.raised = "NeverReturns"]
    ELSE
    Bind(http_get(w, AppendPaging(url, url_separator, query_limit, query_offset), "None",
                  "wql_dataSources_fields", PageStatus(env, k),
                  ServerPage(env, AppendPaging(url, url_separator, query_limit, query_offset))),
         LAMBDA w1 :
           IF w1.raised # NoError THEN w1
           ELSE IF w1.resp.status_code # 200
             THEN [w1 EXCEPT !.ret = PyJson(Collection(acc))]
           ELSE IF ~return_all \/ Len(w1.resp.body.data) < query_limit
             THEN [w1 EXCEPT !.ret = PyJson(Collection(acc \o w1.resp.body.data))]
           ELSE fields_loop(w1, AppendPaging(url, url_separator, query_limit, query_offset),
                            url_separator, return_all, query_limit, query_offset + query_limit,
                            acc \o w1.resp.body.data, env, k + 1))

wql_dataSources_fields(w, id, alias, searchString, limit, offset, env) ==
    IF id = None THEN [w EXCEPT !.ret = PyNone]
    ELSE
      fields_loop(w, wql_endpoint(<<"dataSources", id, "fields">>),
          IF alias # None \/ searchString # None THEN "&" ELSE "?",
          ~LimitGiven(limit),
          IF LimitGiven(limit) THEN limit ELSE 100,
          IF LimitGiven(limit) /\ offset # NoneInt /\ offset > 0 THEN offset ELSE 0,
          <<>>, env, 1)

MaxRows == 10000

DataUrl(query_safe, query_limit, offset) ==
    Url(<<"wql", "data">>, None, Filter("query", query_safe),
        <<[limit |-> query_limit, offset |-> offset]>>)

(* what wql_data hands back when a page request fails: total is as it was *)
(* initialised                                                             *)
DataOnError(data) == PyJson([kind |-> "page", total |-> 0, data |-> data])

RECURSIVE data_loop(_, _, _, _, _, _, _)
data_loop(w, query_safe, query_limit, offset, acc, env, k) ==
    IF k > MaxPages THEN [w EXCEPT !.raised = "NeverReturns"]
    ELSE
    Bind(http_get(w, DataUrl(query_safe, query_limit, offset), "None", "wql_data",
                  PageStatus(env, k),
                  ServerPage(env, DataUrl(query_safe, query_limit, offset))),
         LAMBDA w1 :
           IF w1.raised # NoError THEN w1
           ELSE IF w1.resp.status_code # 200
             THEN [w1 EXCEPT !.ret = DataOnError(acc)]
           ELSE IF Len(w1.resp.body.data) < query_limit
             THEN [w1 EXCEPT !.ret = PyJson(Collection(acc \o w1.resp.body.data))]
           ELSE data_loop(w1, query_safe, query_limit, offset + query_limit,
                          acc \o w1.resp.body.data, env, k + 1))

(* limit is None or not isinstance(limit, int) or limit > 10000 *)
WindowOnlyForNone(limit) == limit = NoneInt

WindowForced(limit) == limit = NoneInt \/ limit > MaxRows

wql_data(w, query, limit, offset, env) ==
    data_loop(w, Quote(Strip(query)),
              IF WindowForced(limit) THEN MaxRows ELSE limit,
              IF WindowForced(limit) \/ offset = NoneInt THEN 0 ELSE offset,
              <<>>, env, 1)

----------------------------------------------------------------------------
(* List, search and query calls *)

MaxFailAt == 2
FailStatuses == {204, 500}

(* which request of the call the tenant answers with an error, if any *)
Failures ==
    {[failAt |-> 0, failStatus |-> 200]}
      \cup {[failAt |-> k, failStatus |-> st] : k \in 1..MaxFailAt, st \in FailStatuses}

Env(n, f, dup) == [n |-> n, failAt |-> f.failAt, failStatus |-> f.failStatus, dup |-> dup]

ListNames == {None, <<"b">>}
(* a search string in mixed case, for the searches of the three listers *)
MixedCase == <<"a", "B">>
SearchNames == ListNames \cup {MixedCase}
ListIds == {None, <<"wid">>}
ListLimits == {NoneInt, 1, 2}
ListOffsets == {NoneInt, 1}
MaxSmall == 4
TenantSizes == {0, 1, MaxSmall, 100, 101}
DataChangeSizes == {0, 1, MaxSmall, 500, 501}

ListArgs(name, id, limit, offset, search, n, f) ==
    [name |-> name, id |-> id, limit |-> limit, offset |-> offset, search |-> search,
     n |-> n, failAt |-> f.failAt, failStatus |-> f.failStatus, dup |-> "last"]

TablesGet ==
    \E name \in SearchNames, id \in ListIds, limit \in ListLimits, offset \in ListOffsets,
       search \in BOOLEAN, n \in TenantSizes, f \in Failures :
        /\ call = NoCall
        /\ issued < MaxTokens
        /\ name = MixedCase => search /\ id = None
        /\ limit # NoneInt => n <= MaxSmall
        /\ id # None => n = 1 /\ f.failAt <= 1
        /\ \E w \in {tables_get(World, name, id, limit, offset, "summary", search,
                                Env(n, f, "last"))} :
               Commit(w, CallRecord(w, "tables_get",
                                    ListArgs(name, id, limit, offset, search, n, f), w.ret))
        /\ UNCHANGED <<revoked, activity, upload, threads>>

BucketsGet ==
    \E name \in SearchNames, id \in ListIds, limit \in ListLimits, offset \in ListOffsets,
       table_name \in {None, <<"a">>}, search \in BOOLEAN, n \in TenantSizes,
       f \in Failures :
        /\ call = NoCall
        /\ issued < MaxTokens
        /\ table_name # None => name = None /\ id = None
        /\ name = MixedCase => search /\ id = None
        /\ id # None => n = 1 /\ f.failAt <= 1
        /\ \E w \in {buckets_get(World, id, name, limit, offset, "summary", table_name,
                                 search, Env(n, f, "last"))} :
               Commit(w, CallRecord(w, "buckets_get",
                                    [table_name |-> table_name]
                                      @@ ListArgs(name, id, limit, offset, search, n, f),
                                    w.ret))
        /\ UNCHANGED <<revoked, activity, upload, threads>>

DataChangesGet ==
    \E name \in SearchNames, id \in ListIds, limit \in ListLimits, offset \in ListOffsets,
       search \in BOOLEAN, n \in DataChangeSizes, f \in Failures :
        /\ call = NoCall
        /\ issued < MaxTokens
        /\ name = MixedCase => search /\ id = None
        /\ id # None => n = 1 /\ f.failAt <= 1
        /\ \E w \in {dataChanges_get(World, name, id, limit, offset, "summary", search,
                                     Env(n, f, "last"))} :
               Commit(w, CallRecord(w, "dataChanges_get",
                                    ListArgs(name, id, limit, offset, search, n, f), w.ret))
        /\ UNCHANGED <<revoked, activity, upload, threads>>

WqlDataSources ==
    \E id \in ListIds, alias \in ListNames, searchString \in ListNames,
       limit \in ListLimits, offset \in ListOffsets, n \in TenantSizes, f \in Failures :
        /\ call = NoCall
        /\ issued < MaxTokens
        /\ id # None => n = 1 /\ f.failAt <= 1
        /\ \E w \in {wql_dataSources(World, id, alias, searchString, limit, offset,
                                     Env(n, f, "last"))} :
               Commit(w, CallRecord(w, "wql_dataSources",
                                    [alias |-> alias, searchString |-> searchString]
                                      @@ ListArgs(None, id, limit, offset, FALSE, n, f),
                                    w.ret))
        /\ UNCHANGED <<revoked, activity, upload, threads>>

WqlDataSourcesFields ==
    \E id \in ListIds, alias \in ListNames, limit \in ListLimits, offset \in ListOffsets,
       n \in TenantSizes, f \in Failures, dup \in {"first", "last"} :
        /\ call = NoCall
        /\ issued < MaxTokens
        /\ id = None => n = 1 /\ f.failAt = 0 /\ dup = "last"
        /\ \E w \in {wql_dataSources_fields(World, id, alias, None, limit, offset,
                                            Env(n, f, dup))} :
               Commit(w, CallRecord(w, "wql_dataSources_fields",
                                    [alias |-> alias, dup |-> dup]
                                      @@ ListArgs(None, id, limit, offset, FALSE, n, f),
                                    w.ret))
        /\ UNCHANGED <<revoked, activity, upload, threads>>

Queries == {<<"q">>, <<" ", "q", " ", "r", " ">>}

(* limits and result sizes on both sides of the row window *)
DataLimits == ListLimits \cup {MaxRows, MaxRows + 1}
DataSizes == TenantSizes \cup {MaxRows, MaxRows + 1}

WqlData ==
    \E query \in Queries, limit \in DataLimits, offset \in ListOffsets,
       n \in DataSizes, f \in Failures :
        /\ call = NoCall
        /\ issued < MaxTokens
        /\ limit \in 1..MaxSmall => n <= MaxSmall
        /\ (limit >= MaxRows \/ n >= MaxRows) =>
              /\ n \in {1, MaxRows, MaxRows + 1}
              /\ limit \in {NoneInt, MaxRows, MaxRows + 1}
              /\ query = <<"q">>
              /\ f.failAt = 0
        /\ \E w \in {wql_data(World, query, limit, offset, Env(n, f, "last"))} :
               Commit(w, CallRecord(w, "wql_data",
                                    [query |-> query]
                                      @@ ListArgs(None, None, limit, offset, FALSE, n, f),
                                    w.ret))
        /\ UNCHANGED <<revoked, activity, upload, threads>>

(* the caller takes the result of the call *)
Return ==
    /\ call # NoCall
    /\ upload = Idle
    /\ call' = NoCall
    /\ UNCHANGED <<bearer_token, bearer_token_timestamp, CONTENT_APP_JSON, CONTENT_FORM,
                   now, idp_status, issued, issuedAt, revoked, activity, upload, threads>>

NextList ==
    \/ TablesGet
    \/ BucketsGet
    \/ DataChangesGet
    \/ WqlDataSources
    \/ WqlDataSourcesFields
    \/ WqlData
    \/ Return

SpecList == Init /\ [][NextList]_vars

----------------------------------------------------------------------------
(* Table schemas and load schemas: Python dicts, as functions from keys *)

(* del d[k], for a key d has *)
Without(d, k) == [x \in DOMAIN d \ {k} |-> d[x]]

(* d.update(e), d[k] = v *)
Update(d, e) == e @@ d

(* str.startswith(prefix) *)
StartsWith(str, prefix) ==
    Len(str) >= Len(prefix) /\ SubSeq(str, 1, Len(prefix)) = prefix

WPA == <<"W", "P", "A">>
WPA_ == <<"W", "P", "A", "_">>

(* fld["name"] of every field is read: KeyError when a field has none *)
AllNamed(fields) == \A i \in 1..Len(fields) : "name" \in DOMAIN fields[i]

(* schema_fixup line 124: not fld['name'].startswith('WPA_') *)
KeepsManaged(fld) == TRUE

NotManaged(fld) == ~StartsWith(fld["name"], WPA_)

(* schema_fixup lines 128-130: fld["ordinal"] = ordinal + 1 *)
Renumber(fields) == [i \in 1..Len(fields) |-> Update(fields[i], [ordinal |-> i])]

SchemaKeys == {"name", "id", "fields", "tags", "displayName", "description",
               "documentation", "enableForAnalysis"}

(* lines 132-137: every other key is deleted; and a version that deletes   *)
(* none                                                                    *)
KeepAllKeys(schema) == schema

KeepSchemaKeys(schema) == [k \in DOMAIN schema \cap SchemaKeys |-> schema[k]]

(* isinstance(schema, dict): every other value carries its kind *)
IsDict(schema) == "kind" \notin DOMAIN schema

(* the value of a fields key that is no list: the str "nolist" *)
NoList == <<"n", "o", "l", "i", "s", "t">>

(* is_valid_string, is_valid_list: the one id that is no str is None, the  *)
(* one fields value that is no list is NoList                              *)
is_valid_string(schema, attr) ==
    attr \in DOMAIN schema /\ schema[attr] # None /\ Len(schema[attr]) > 0
is_valid_list(schema, attr) == attr \in DOMAIN schema /\ schema[attr] # NoList

(* schema_fixup(schema): the value returned, and schema as the call leaves it *)
schema_fixup(schema) ==
    IF schema = PyNone \/ ~IsDict(schema)
      THEN [raised |-> NoError, ret |-> FALSE, schema |-> schema]
    ELSE IF ~is_valid_string(schema, "id") \/ ~is_valid_list(schema, "fields")
      THEN [raised |-> NoError, ret |-> FALSE, schema |-> schema]
    ELSE IF ~AllNamed(schema["fields"])
      THEN [raised |-> "KeyError", ret |-> FALSE, schema |-> schema]
    ELSE [raised |-> NoError, ret |-> TRUE,
          schema |-> KeepSchemaKeys(
                       Update(schema,
                              [fields |-> Renumber(SelectSeq(schema["fields"], NotManaged))]))]

(* table_to_bucket_schema line 172: "WPA" not in x["name"] *)
NotAudit(x) == ~Contains(WPA, x["name"])

(* lines 178-182: fld["externalId"] is True, and the test inverted *)
OperationKeyNegated(fld) == [useAsOperationKey |-> ~(fld["externalId"] = TRUE)]

OperationKey(fld) == [useAsOperationKey |-> fld["externalId"] = TRUE]

(* the fields before the first one without externalId get their key; the   *)
(* loop stops there with KeyError                                          *)
RECURSIVE AssignOperationKeys(_)
AssignOperationKeys(fields) ==
    IF fields = <<>> THEN [raised |-> NoError, fields |-> <<>>]
    ELSE IF "externalId" \notin DOMAIN Head(fields)
      THEN [raised |-> "KeyError", fields |-> fields]
    ELSE LET rest == AssignOperationKeys(Tail(fields))
         IN  [raised |-> rest.raised,
              fields |-> <<Update(Head(fields), OperationKey(Head(fields)))>>
                           \o rest.fields]

TrimmedAttrs == {"id", "displayName", "fieldId", "required", "externalId"}

(* lines 185-188 *)
Trim(fld) == [k \in DOMAIN fld \ TrimmedAttrs |-> fld[k]]

SchemaVersion == [id |-> <<"Schema_Version=1.0">>]

DefaultParseOptions ==
    [fieldsDelimitedBy |-> <<",">>,
     fieldsEnclosedBy |-> <<"\"">>,
     headerLinesToIgnore |-> 1,
     charset |-> [id |-> <<"Encoding=UTF-8">>],
     type |-> [id |-> <<"Schema_File_Type=Delimited">>]]

(* lines 190-199 *)
ParseOptionsOf(table) ==
    IF "parseOptions" \in DOMAIN table THEN table["parseOptions"] ELSE DefaultParseOptions

(* table_to_bucket_schema(table): the value returned or the exception, and *)
(* table as the call leaves it (the field list is changed in place)        *)
table_to_bucket_schema(table) ==
    IF table = PyNone \/ "fields" \notin DOMAIN table
      THEN [raised |-> NoError, ret |-> PyNone, table |-> table]
    ELSE IF ~AllNamed(table["fields"])
      THEN [raised |-> "KeyError", ret |-> PyNone, table |-> table]
    ELSE
      LET keyed == AssignOperationKeys(SelectSeq(table["fields"], NotAudit))
          fields == [i \in 1..Len(keyed.fields) |-> Trim(keyed.fields[i])]
      IN  IF keyed.raised # NoError
            THEN [raised |-> keyed.raised, ret |-> PyNone,
                  table |-> Update(table, [fields |-> keyed.fields])]
          ELSE [raised |-> NoError,
                ret |-> PyJson([schemaVersion |-> SchemaVersion,
                                parseOptions |-> ParseOptionsOf(table),
                                fields |-> fields]),
                table |-> Update(table, [fields |-> fields])]

----------------------------------------------------------------------------
(* buckets_create *)

(* data=..., files=...: what the last request of the world carried, when   *)
(* that request went to url                                                *)
Attach(w, url, payload) ==
    IF w.sent # <<>> /\ w.sent[Len(w.sent)].url = url
      THEN [w EXCEPT !.sent[Len(w.sent)] = payload @@ @]
      ELSE w

(* buckets_gen_name(): "cli_" + uuid.uuid4().hex *)
buckets_gen_name == <<"cli_", "uuid">>

(* the schema argument: None, a dict, the name of a JSON file (readable or *)
(* not), or a value of another type                                        *)
SchemaNone == [kind |-> "None"]
SchemaDict(d) == [kind |-> "dict", val |-> d]
SchemaFile(d) == [kind |-> "file", val |-> d]
SchemaNoFile == [kind |-> "nofile"]
SchemaOther == [kind |-> "other"]

(* lines 853-865: the table schema the argument yields, PyNone for none *)
LoadSchema(schema) ==
    IF schema.kind \in {"dict", "file"} THEN schema.val ELSE PyNone

SchemaUnusable(schema) == schema.kind \in {"nofile", "other"}

(* the document the tenant holds for the table a lookup found *)
TableOf(env) == env.doc

BucketsCreateUrl == prism_endpoint(<<"buckets">>)

(* lines 898-922: fix the schema up, transform it, POST the bucket *)
PostBucket(w, bucket_name, table_schema, operation, status) ==
    LET fixed == schema_fixup(table_schema)
        made == table_to_bucket_schema(fixed.schema)
        data == [name |-> bucket_name,
                 operation |-> [id |-> <<"Operation_Type=">> \o operation],
                 targetDataset |-> [id |-> fixed.schema["id"]],
                 schema |-> made.ret]
    IN  IF fixed.raised # NoError THEN [w EXCEPT !.raised = fixed.raised]
        ELSE IF ~fixed.ret THEN [w EXCEPT !.ret = PyNone]
        ELSE IF made.raised # NoError THEN [w EXCEPT !.raised = made.raised]
        ELSE
          Bind(Attach(http_post(w, BucketsCreateUrl, "CONTENT_APP_JSON", "buckets_create",
                                status, OpaqueBody),
                      BucketsCreateUrl, [data |-> data]),
               LAMBDA w1 :
                 IF w1.raised # NoError THEN w1
                 ELSE IF w1.resp.status_code = 201
                   THEN [w1 EXCEPT !.ret = PyJson(w1.resp.body)]
                 ELSE [w1 EXCEPT !.ret = PyNone])

(* lines 892-896: the table's own schema, or the caller's with the table's id *)
SchemaFor(table_schema, table) ==
    IF table_schema = PyNone THEN table ELSE Update(table_schema, [id |-> table["id"]])

buckets_create(w, name, target_name, target_id, schema, operation, env, status) ==
    LET bucket_name == IF name = None THEN buckets_gen_name ELSE name
        table_schema == LoadSchema(schema)
    IN  IF SchemaUnusable(schema) THEN [w EXCEPT !.ret = PyNone]
        ELSE IF target_id = None /\ target_name = None
          THEN IF table_schema = PyNone THEN [w EXCEPT !.ret = PyNone]
               ELSE IF "id" \notin DOMAIN table_schema \/ "fields" \notin DOMAIN table_schema
                 THEN [w EXCEPT !.ret = PyNone]
               ELSE PostBucket(w, bucket_name, table_schema, operation, status)
        ELSE IF target_id # None
          THEN Bind(tables_get(w, None, target_id, NoneInt, NoneInt, "full", FALSE, env),
                    LAMBDA w1 :
                      IF w1.raised # NoError THEN w1
                      ELSE IF w1.ret = PyNone THEN [w1 EXCEPT !.ret = PyNone]
                      ELSE PostBucket(w1, bucket_name,
                                      SchemaFor(table_schema, TableOf(env)),
                                      operation, status))
        ELSE Bind(tables_get(w, target_name, None, NoneInt, NoneInt, "full", FALSE, env),
                  LAMBDA w1 :
                    IF w1.raised # NoError THEN w1
                    ELSE IF w1.ret.val.total = 0 THEN [w1 EXCEPT !.ret = PyNone]
                    ELSE PostBucket(w1, bucket_name,
                                    SchemaFor(table_schema, TableOf(env)),
                                    operation, status))

----------------------------------------------------------------------------
(* tables_post, tables_put *)

(* create a table: the schema as schema_fixup left it goes out as JSON *)
tables_post(w, schema, status) ==
    LET fixed == schema_fixup(schema)
        url == prism_endpoint(<<"tables">>)
    IN  IF fixed.raised # NoError THEN [w EXCEPT !.raised = fixed.raised]
        ELSE IF ~fixed.ret THEN [w EXCEPT !.ret = PyNone]
        ELSE
          Bind(Attach(http_post(w, url, "CONTENT_APP_JSON", "tables_post", status,
                                OpaqueBody),
                      url, [data |-> fixed.schema]),
               LAMBDA w1 :
                 IF w1.raised # NoError THEN w1
                 ELSE IF w1.resp.status_code = 201
                   THEN [w1 EXCEPT !.ret = PyJson(w1.resp.body)]
                 ELSE [w1 EXCEPT !.ret = PyNone])

(* replace the definition of a table *)
tables_put(w, id, schema, status) ==
    LET fixed == schema_fixup(schema)
        url == prism_endpoint(<<"tables", id>>)
    IN  IF fixed.raised # NoError THEN [w EXCEPT !.raised = fixed.raised]
        ELSE IF ~fixed.ret THEN [w EXCEPT !.ret = PyNone]
        ELSE
          Bind(Attach(http_put(w, url, "None", "tables_put", status, OpaqueBody),
                      url, [data |-> fixed.schema]),
               LAMBDA w1 :
                 IF w1.raised # NoError THEN w1
                 ELSE IF w1.resp.status_code = 200
                   THEN [w1 EXCEPT !.ret = PyJson(w1.resp.body)]
                 ELSE [w1 EXCEPT !.ret = PyNone])

----------------------------------------------------------------------------
(* fileContainers_create, resolve_file_list, fileContainers_load *)

(* str.endswith(suffix) *)
EndsWith(str, suffix) ==
    Len(str) >= Len(suffix)
      /\ SubSeq(str, Len(str) - Len(suffix) + 1, Len(str)) = suffix

Csv == <<".", "c", "s", "v">>
CsvGz == <<".", "c", "s", "v", ".", "g", "z">>

(* the files of the working directory, and a name no file has *)
FilesOnDisk == {<<"a">> \o Csv,
                <<"b", ".", "C", "S", "V", ".", "G", "Z">>,
                <<"c", ".", "t", "x", "t">>}
NoSuchFile == <<"g">> \o Csv

(* the file argument: None, one name, or a list of names *)
FilesNone == [kind |-> "None"]
FilesStr(name) == [kind |-> "str", val |-> name]
FilesList(names) == [kind |-> "list", val |-> names]

UploadableUnseen(f) == TRUE

Uploadable(f) ==
    f \in FilesOnDisk /\ (EndsWith(Lower(f), Csv) \/ EndsWith(Lower(f), CsvGz))

resolve_file_list(files) ==
    IF files.kind = "None" THEN <<>>
    ELSE IF files.kind = "str"
      THEN IF files.val = EmptyStr THEN <<>> ELSE SelectSeq(<<files.val>>, Uploadable)
    ELSE SelectSeq(files.val, Uploadable)

(* lines 1345-1354: the name the file is uploaded under *)
UploadName(target_file) ==
    IF EndsWith(Lower(target_file), CsvGz) THEN target_file ELSE target_file \o <<".", "g", "z">>

FileContainersUrl == prism_endpoint(<<"fileContainers">>)
ContainerFilesUrl(id) == prism_endpoint(<<"fileContainers", id, "files">>)

(* the id the tenant gives a new container *)
NewContainer == [id |-> <<"fc1">>]

fileContainers_create(w, status) ==
    Bind(http_post(w, FileContainersUrl, "None", "fileContainers_create", status,
                   NewContainer),
         LAMBDA w1 :
           IF w1.raised # NoError THEN w1
           ELSE IF w1.resp.status_code = 201 THEN [w1 EXCEPT !.ret = PyJson(w1.resp.body)]
           ELSE [w1 EXCEPT !.ret = PyNone])

(* line 1360, and a version that forgets the container it has *)
NeedsContainerAlways(resolved_fid) == TRUE

NeedsContainer(resolved_fid) == resolved_fid = None

UploadResults(id, data) == [id |-> id, total |-> Len(data), data |-> data]

(* lines 1374-1384: POST the file to the container *)
UploadFile(w, resolved_fid, target_file, status) ==
    Attach(http_post(w, ContainerFilesUrl(resolved_fid), "None", "fileContainers_load",
                     status, [name |-> UploadName(target_file)]),
           ContainerFilesUrl(resolved_fid),
           [file |-> UploadName(target_file), source |-> target_file])

RECURSIVE load_loop(_, _, _, _, _, _, _)
load_loop(w, resolved_fid, results_id, target_files, data, env, k) ==
    IF k > Len(target_files)
      THEN [w EXCEPT !.ret = PyJson(UploadResults(results_id, data))]
    ELSE
    Bind(IF NeedsContainer(resolved_fid)
           THEN fileContainers_create(w, env.createStatus)
           ELSE [w EXCEPT !.ret = PyJson([id |-> resolved_fid])],
         LAMBDA w1 :
           IF w1.raised # NoError THEN w1
           ELSE IF w1.ret = PyNone THEN w1
           ELSE
             Bind(UploadFile(w1, w1.ret.val.id, target_files[k], env.uploadStatus[k]),
                  LAMBDA w2 :
                    IF w2.raised # NoError THEN w2
                    ELSE load_loop(w2, w1.ret.val.id, w1.ret.val.id, target_files,
                                   IF w2.resp.status_code = 201
                                     THEN Append(data, w2.resp.body) ELSE data,
                                   env, k + 1)))

fileContainers_load(w, id, file, env) ==
    load_loop(w, id, None, resolve_file_list(file), <<>>, env, 1)

----------------------------------------------------------------------------
(* buckets_complete, and the "buckets complete" command of the CLI *)

(* the states a bucket can be in on the tenant *)
BucketStates == {"New", "Processing", "Loaded", "Error"}

CompleteUrl(id) == prism_endpoint(<<"buckets", id, "complete">>)

buckets_complete(w, id, status) ==
    Bind(http_post(w, CompleteUrl(id), "None", "buckets_complete", status, OpaqueBody),
         LAMBDA w1 :
           IF w1.raised # NoError THEN w1
           ELSE IF w1.resp.status_code = 201 THEN [w1 EXCEPT !.ret = PyJson(w1.resp.body)]
           ELSE [w1 EXCEPT !.ret = PyNone])

(* The command looks the bucket up with p.buckets_list, a method the Prism *)
(* class does not have, before it reads the state.                         *)
buckets_complete_command(w, id, name) ==
    IF id = None /\ name = None THEN [w EXCEPT !.raised = "SystemExit"]
    ELSE [w EXCEPT !.raised = "AttributeError"]

(* what the tenant answers to a complete request *)
CompleteStatuses(state) == IF state = "New" THEN {200, 201, 500} ELSE {400, 500}

BucketsComplete ==
    \E id \in {<<"bid">>}, state \in BucketStates :
      \E status \in CompleteStatuses(state) :
        /\ call = NoCall
        /\ issued < MaxTokens
        /\ \E w \in {buckets_complete(World, id, status)} :
               Commit(w, CallRecord(w, "buckets_complete",
                                    [id |-> id, state |-> state, status |-> status],
                                    w.ret))
        /\ UNCHANGED <<revoked, activity, upload, threads>>

BucketsCompleteCommand ==
    \E id \in {None, <<"bid">>}, name \in ListNames, state \in BucketStates :
        /\ call = NoCall
        /\ issued < MaxTokens
        /\ \E w \in {buckets_complete_command(World, id, name)} :
               Commit(w, CallRecord(w, "buckets_complete_command",
                                    [id |-> id, name |-> name, state |-> state],
                                    PyNone))
        /\ UNCHANGED <<revoked, activity, upload, threads>>

----------------------------------------------------------------------------
(* buckets_files, and the "tables truncate" command of the CLI *)

BucketFilesUrl(id) == prism_endpoint(<<"buckets", id, "files">>)

(* lines 983-987: no file stands for one empty file; and a version that    *)
(* uploads nothing then                                                    *)
TargetFilesResolved(file) == resolve_file_list(file)

TargetFiles(file) ==
    IF file.kind = "None" THEN <<None>> ELSE resolve_file_list(file)

(* lines 991-1001: the part the request carries, with the size of its body *)
NewFile(target_file) ==
    IF target_file = None THEN [file |-> <<"empty">>, size |-> 0]
    ELSE [file |-> UploadName(target_file), size |-> 1]

RECURSIVE files_loop(_, _, _, _, _, _)
files_loop(w, id, target_files, data, uploadStatus, k) ==
    IF k > Len(target_files) THEN [w EXCEPT !.ret = PyJson(Collection(data))]
    ELSE
    Bind(Attach(http_post(w, BucketFilesUrl(id), "None", "buckets_files", uploadStatus[k],
                          NewFile(target_files[k])),
                BucketFilesUrl(id), NewFile(target_files[k])),
         LAMBDA w1 :
           IF w1.raised # NoError THEN w1
           ELSE files_loop(w1, id, target_files,
                           IF w1.resp.status_code = 201
                             THEN Append(data, w1.resp.body) ELSE data,
                           uploadStatus, k + 1))

buckets_files(w, id, file, uploadStatus) ==
    files_loop(w, id, TargetFiles(file), <<>>, uploadStatus, 1)

(* The command creates the bucket and then calls p.buckets_upload, a       *)
(* method the Prism class does not have.                                   *)
tables_truncate(w, table, isname, env, status) ==
    Bind(buckets_create(w, None, IF isname THEN table ELSE None,
                        IF isname THEN None ELSE table, SchemaNone,
                        <<"TruncateAndInsert">>, env, status),
         LAMBDA w1 :
           IF w1.raised # NoError THEN w1
           ELSE IF w1.ret = PyNone THEN [w1 EXCEPT !.raised = "SystemExit"]
           ELSE [w1 EXCEPT !.raised = "AttributeError"])

----------------------------------------------------------------------------
(* Schema, bucket and file container calls *)

MaxFields == 2
MaxFiles == 3

Field(name, externalId) ==
    [name |-> name, externalId |-> externalId, ordinal |-> 0,
     id |-> <<"fid">>, type |-> <<"Text">>]

FieldNames == {<<"a">>, WPA_ \o <<"x">>, <<"x">> \o WPA}

(* the fields of a table as the tenant describes it *)
ServerFields == {Field(name, e) : name \in FieldNames, e \in BOOLEAN}

(* and the fields a caller's own schema may hold *)
CallerFields ==
    ServerFields \cup {Without(Field(<<"a">>, TRUE), "name"),
                       Without(Field(<<"a">>, FALSE), "externalId")}

FieldLists(pool) == UNION {[1..n -> pool] : n \in 0..MaxFields}

(* ordinals as the tenant numbers the fields of a table *)
Numbered(fields) == [i \in 1..Len(fields) |-> Update(fields[i], [ordinal |-> i])]

OwnParseOptions ==
    [fieldsDelimitedBy |-> <<";">>,
     fieldsEnclosedBy |-> <<"'">>,
     headerLinesToIgnore |-> 0,
     charset |-> [id |-> <<"Encoding=ISO-8859-1">>],
     type |-> [id |-> <<"Schema_File_Type=Delimited">>]]

TableDoc(fields, own) ==
    IF own
      THEN [id |-> <<"tid">>, name |-> <<"b">>, fields |-> Numbered(fields),
            parseOptions |-> OwnParseOptions]
      ELSE [id |-> <<"tid">>, name |-> <<"b">>, fields |-> Numbered(fields)]

ServerTables == {TableDoc(f, own) : f \in FieldLists(ServerFields), own \in BOOLEAN}

CallerTables ==
    {TableDoc(f, own) : f \in FieldLists(CallerFields), own \in BOOLEAN}
      \cup {PyNone, Without(TableDoc(<<>>, FALSE), "fields"),
            Without(TableDoc(<<>>, FALSE), "id")}

(* what a caller may hand to tables_post and tables_put: a table, or no    *)
(* dict at all, or a dict whose id is "" or no str, or whose fields are no *)
(* list                                                                    *)
FixupInputs ==
    CallerTables
      \cup {PyStr(<<"s">>),
            Update(TableDoc(<<>>, FALSE), [id |-> EmptyStr]),
            Update(TableDoc(<<>>, FALSE), [id |-> None]),
            Update(TableDoc(<<>>, FALSE), [fields |-> NoList])}

(* a call of a function that touches no field of the client *)
PureCall(op, args, raised, ret) ==
    Commit(World, CallRecord([World EXCEPT !.raised = raised], op, args, ret))

TableToBucketSchema ==
    \E table \in CallerTables :
        /\ call = NoCall
        /\ \E r \in {table_to_bucket_schema(table)} :
               PureCall("table_to_bucket_schema", [table |-> table, after |-> r.table],
                        r.raised, r.ret)
        /\ UNCHANGED <<revoked, activity, upload, threads>>

(* the load schema just returned is passed to table_to_bucket_schema again *)
TableToBucketSchemaAgain ==
    /\ call.op = "table_to_bucket_schema"
    /\ call.raised = NoError
    /\ call.ret.kind = "json"
    /\ \E r \in {table_to_bucket_schema(call.ret.val)} :
           PureCall("table_to_bucket_schema_again",
                    [table |-> call.ret.val, after |-> r.table], r.raised, r.ret)
    /\ UNCHANGED <<revoked, activity, upload, threads>>

SchemaInputs ==
    {SchemaNone, SchemaNoFile, SchemaOther, SchemaFile(TableDoc(<<>>, TRUE))}
      \cup {SchemaDict(t) : t \in CallerTables \ {PyNone}}

TargetSchemas ==
    {SchemaNone, SchemaDict(TableDoc(<<Field(<<"a">>, TRUE)>>, TRUE))}

CreateStatuses == {200, 201, 400, ConnectionError}

BucketsCreate ==
    /\ call = NoCall
    /\ issued < MaxTokens
    /\ \E target \in {"none", "id", "name"} :
        \E name \in (IF target = "id" THEN {None, <<"bk">>} ELSE {None}),
           schema \in (IF target = "none" THEN SchemaInputs ELSE TargetSchemas),
           n \in (IF target = "name" THEN {0, MaxSmall} ELSE {0}),
           failAt \in (IF target = "none" THEN {0} ELSE {0, 1}),
           status \in CreateStatuses :
         \E doc \in (IF target # "none" /\ schema = SchemaNone
                       THEN ServerTables ELSE {TableDoc(<<>>, FALSE)}) :
          \E w \in {buckets_create(World, name,
                                   IF target = "name" THEN <<"b">> ELSE None,
                                   IF target = "id" THEN <<"tid">> ELSE None,
                                   schema, <<"TruncateAndInsert">>,
                                   [doc |-> doc]
                                     @@ Env(n, [failAt |-> failAt, failStatus |-> 500],
                                            "last"),
                                   status)} :
              Commit(w, CallRecord(w, "buckets_create",
                                   [name |-> name, target |-> target, schema |-> schema,
                                    doc |-> doc, n |-> n, failAt |-> failAt,
                                    status |-> status],
                                   w.ret))
    /\ UNCHANGED <<revoked, activity, upload, threads>>

TablesPost ==
    /\ call = NoCall
    /\ issued < MaxTokens
    /\ \E schema \in FixupInputs, status \in OpStatuses :
         \E w \in {tables_post(World, schema, status)} :
             Commit(w, CallRecord(w, "tables_post",
                                  [schema |-> schema, status |-> status], w.ret))
    /\ UNCHANGED <<revoked, activity, upload, threads>>

TablesPut ==
    /\ call = NoCall
    /\ issued < MaxTokens
    /\ \E schema \in FixupInputs, status \in OpStatuses :
         \E w \in {tables_put(World, <<"tid">>, schema, status)} :
             Commit(w, CallRecord(w, "tables_put",
                                  [schema |-> schema, status |-> status], w.ret))
    /\ UNCHANGED <<revoked, activity, upload, threads>>

FileContainersCreate ==
    /\ call = NoCall
    /\ issued < MaxTokens
    /\ \E status \in OpStatuses :
         \E w \in {fileContainers_create(World, status)} :
             Commit(w, CallRecord(w, "fileContainers_create", [status |-> status], w.ret))
    /\ UNCHANGED <<revoked, activity, upload, threads>>

FileNames == FilesOnDisk \cup {NoSuchFile}

FileInputs ==
    {FilesNone, FilesStr(EmptyStr), FilesStr(<<"a">> \o Csv)}
      \cup {FilesList(l) : l \in UNION {[1..n -> FileNames] : n \in 0..MaxFiles}}

UploadStatuses == {201, 500, ConnectionError}

FileContainersLoad ==
    /\ call = NoCall
    /\ issued < MaxTokens
    /\ \E id \in {None, <<"fc0">>}, file \in FileInputs :
        \E createStatus \in (IF id = None THEN {201, 500} ELSE {201}),
           uploadStatus \in [1..Len(resolve_file_list(file)) -> UploadStatuses] :
          \E w \in {fileContainers_load(World, id, file,
                                        [createStatus |-> createStatus,
                                         uploadStatus |-> uploadStatus])} :
              Commit(w, CallRecord(w, "fileContainers_load",
                                   [id |-> id, file |-> file,
                                    createStatus |-> createStatus,
                                    uploadStatus |-> uploadStatus],
                                   w.ret))
    /\ UNCHANGED <<revoked, activity, upload, threads>>

(* bucket["id"] of the bucket a creation returned *)
BucketId == <<"bid">>

(* the requests of the call, the token exchange aside *)
Requests(w) == SelectSeq(w.sent, LAMBDA r : r.url # token_endpoint)

(* the caller of a truncate goes on with the bucket it created: it uploads *)
(* to it, with no file or with one                                         *)
BucketsFiles ==
    /\ call.op = "buckets_create"
    /\ call.raised = NoError
    /\ call.ret.kind = "json"
    /\ call.args.schema = SchemaNone
    /\ call.args.name = None
    /\ issued < MaxTokens
    /\ \E file \in {FilesNone, FilesList(<< <<"a">> \o Csv >>)} :
         \E uploadStatus \in [1..Len(TargetFiles(file)) -> UploadStatuses] :
          \E w \in {buckets_files(World, BucketId, file, uploadStatus)} :
              Commit(w, CallRecord(w, "buckets_files",
                                   [id |-> BucketId, file |-> file,
                                    uploadStatus |-> uploadStatus,
                                    earlier |-> Requests(call)],
                                   w.ret))
    /\ UNCHANGED <<revoked, activity, upload, threads>>

(* buckets_files on a bucket of the tenant, with any file argument *)
BucketsFilesAny ==
    /\ call = NoCall
    /\ issued < MaxTokens
    /\ \E file \in FileInputs :
         \E uploadStatus \in [1..Len(TargetFiles(file)) -> UploadStatuses] :
          \E w \in {buckets_files(World, BucketId, file, uploadStatus)} :
              Commit(w, CallRecord(w, "buckets_files",
                                   [id |-> BucketId, file |-> file,
                                    uploadStatus |-> uploadStatus],
                                   w.ret))
    /\ UNCHANGED <<revoked, activity, upload, threads>>

(* and then completes the bucket, which is New on the tenant *)
BucketsCompleteNext ==
    /\ call.op = "buckets_files"
    /\ "earlier" \in DOMAIN call.args
    /\ call.raised = NoError
    /\ issued < MaxTokens
    /\ \E status \in CompleteStatuses("New") :
         \E w \in {buckets_complete(World, call.args.id, status)} :
             Commit(w, CallRecord(w, "buckets_complete",
                                  [id |-> call.args.id, state |-> "New",
                                   status |-> status, file |-> call.args.file,
                                   earlier |-> call.args.earlier \o Requests(call)],
                                  w.ret))
    /\ UNCHANGED <<revoked, activity, upload, threads>>

TablesTruncate ==
    /\ call = NoCall
    /\ issued < MaxTokens
    /\ \E isname \in BOOLEAN, n \in {0, 1}, status \in CreateStatuses :
         \E w \in {tables_truncate(World, <<"a">>, isname,
                                    [doc |-> TableDoc(<<Field(<<"a">>, TRUE)>>, FALSE)]
                                      @@ Env(n, [failAt |-> 1 - n, failStatus |-> 500],
                                             "last"),
                                    status)} :
             Commit(w, CallRecord(w, "tables_truncate",
                                  [isname |-> isname, n |-> n, status |-> status],
                                  PyNone))
    /\ UNCHANGED <<revoked, activity, upload, threads>>

NextLoad ==
    \/ BucketsFiles
    \/ BucketsCompleteNext
    \/ TablesTruncate
    \/ TablesPost
    \/ TablesPut
    \/ BucketsComplete
    \/ BucketsCompleteCommand
    \/ BucketsCreate
    \/ FileContainersLoad
    \/ FileContainersCreate
    \/ BucketsFilesAny
    \/ TableToBucketSchema
    \/ TableToBucketSchemaAgain
    \/ Return

SpecLoad == Init /\ [][NextLoad]_vars

----------------------------------------------------------------------------
(* Data change tasks: validate, run, and the activity a run starts *)

(* the activity as the tenant describes it *)
ActivityId == <<"act1">>
ActivityDoc(state) ==
    [kind |-> "activity", id |-> ActivityId, state |-> [descriptor |-> state]]

ValidateUrl(id) == prism_endpoint(<<"dataChanges", id, "validate">>)
ActivitiesUrl(id) == prism_endpoint(<<"dataChanges", id, "activities">>)
ActivityUrl(id, activityID) ==
    prism_endpoint(<<"dataChanges", id, "activities", activityID>>)

(* r.status_code in [200, 400, 404] *)
ValidateAnswersFound == {200, 400}

ValidateAnswers == {200, 400, 404}

dataChanges_validate(w, id, status) ==
    Bind(http_get(w, ValidateUrl(id), "None", "dataChanges_validate", status,
                  ServerResource(id)),
         LAMBDA w1 :
           IF w1.raised # NoError THEN w1
           ELSE IF w1.resp.status_code \in ValidateAnswers THEN Json(w1)
           ELSE [w1 EXCEPT !.ret = PyNone])

(* lines 1186-1195: a 201 body is read for its id, a 400 body is returned  *)
(* as it is                                                                *)
dataChanges_activities_post(w, id, fileContainerID, status) ==
    Bind(Attach(http_post(w, ActivitiesUrl(id), "CONTENT_APP_JSON",
                          "dataChanges_activities_post", status, ActivityDoc("New")),
                ActivitiesUrl(id),
                [data |-> IF fileContainerID = None THEN PyNone
                          ELSE PyJson([fileContainerWid |-> fileContainerID])]),
         LAMBDA w1 :
           IF w1.raised # NoError THEN w1
           ELSE IF w1.resp.status_code \in {201, 400} THEN Json(w1)
           ELSE [w1 EXCEPT !.ret = PyNone])

dataChanges_activities_get(w, id, activityID, status, state) ==
    Bind(http_get(w, ActivityUrl(id, activityID), "None", "dataChanges_activities_get",
                  status, ActivityDoc(state)),
         LAMBDA w1 :
           IF w1.raised # NoError THEN w1
           ELSE IF w1.resp.status_code = 200 THEN [w1 EXCEPT !.ret = PyJson(w1.resp.body)]
           ELSE [w1 EXCEPT !.ret = PyNone])

----------------------------------------------------------------------------
(* The "dataChanges upload" command of the CLI *)

(* status not in ['New', 'Queued', 'Processing', 'Loading'] negated, and a *)
(* version that takes Loading for an end                                   *)
StillRunningUntilLoading(status) == status \in {"New", "Queued", "Processing"}

StillRunning(status) == status \in {"New", "Queued", "Processing", "Loading"}

(* 'errors' in activity: the error document of the tenant lists its errors *)
HasErrors(doc) == doc.kind = "error"

(* The command up to its polling loop: resolve the task, load the files    *)
(* into a new container, run the task.  ret is the activity when it ran.   *)
upload_run(w, dct_id, file, env) ==
    Bind(fileContainers_load(w, None, file, env),
         LAMBDA w1 :
           IF w1.raised # NoError THEN w1
           ELSE IF w1.ret = PyNone THEN [w1 EXCEPT !.raised = "TypeError"]
           ELSE IF w1.ret.val.total = 0 THEN [w1 EXCEPT !.raised = "SystemExit"]
           ELSE
             Bind(dataChanges_activities_post(w1, dct_id, w1.ret.val.id, env.runStatus),
                  LAMBDA w2 :
                    IF w2.raised # NoError THEN w2
                    ELSE IF w2.ret = PyNone THEN [w2 EXCEPT !.raised = "TypeError"]
                    ELSE IF HasErrors(w2.ret.val) THEN [w2 EXCEPT !.raised = "SystemExit"]
                    ELSE w2))

dataChanges_upload(w, isname, dct, file, env) ==
    IF isname
      THEN Bind(dataChanges_get(w, dct, None, NoneInt, NoneInt, "summary", FALSE, env),
                LAMBDA w1 :
                  IF w1.raised # NoError THEN w1
                  ELSE IF w1.ret.val.total = 0 THEN [w1 EXCEPT !.raised = "SystemExit"]
                  ELSE upload_run(w1, ItemName(w1.ret.val.data[1]), file, env))
      ELSE upload_run(w, dct, file, env)

----------------------------------------------------------------------------
(* Data change calls and the upload command, step by step *)

MaxPolls == 3        \* polls of one command while the activity stays unfinished
MaxClock == 50       \* the latest time a command's last poll may take place

SleepSeconds == 10

TaskStatuses == {200, 201, 204, 400, 404, 500, ConnectionError}

DataChangesValidate ==
    /\ call = NoCall
    /\ upload = Idle
    /\ issued < MaxTokens
    /\ \E status \in TaskStatuses :
         \E w \in {dataChanges_validate(World, <<"dct1">>, status)} :
             Commit(w, CallRecord(w, "dataChanges_validate", [status |-> status], w.ret))
    /\ UNCHANGED <<revoked, activity, upload, threads>>

DataChangesActivitiesPost ==
    /\ call = NoCall
    /\ upload = Idle
    /\ issued < MaxTokens
    /\ \E status \in TaskStatuses, fileContainerID \in {None, <<"fc1">>} :
         \E w \in {dataChanges_activities_post(World, <<"dct1">>, fileContainerID, status)} :
             Commit(w, CallRecord(w, "dataChanges_activities_post",
                                  [status |-> status, fileContainerID |-> fileContainerID],
                                  w.ret))
    /\ UNCHANGED <<revoked, activity, upload, threads>>

(* the command is started; with --wait it enters the polling loop when the *)
(* task ran                                                                *)
UploadStart ==
    /\ call = NoCall
    /\ upload = Idle
    /\ issued < MaxTokens
    /\ now + SleepSeconds * (MaxPolls + 1) <= MaxClock
    /\ \E isname \in BOOLEAN, wait \in BOOLEAN, runStatus \in {201, 400, 500} :
        \E n \in (IF isname THEN {0, 1} ELSE {1}),
           file \in {FilesList(<< <<"a">> \o Csv >>), FilesList(<<>>)},
           createStatus \in {201, 500} :
         \E w \in {dataChanges_upload(World, isname, <<"a">>, file,
                                      [createStatus |-> createStatus,
                                       uploadStatus |-> <<201>>,
                                       runStatus |-> runStatus]
                                        @@ Env(n, [failAt |-> 0, failStatus |-> 200],
                                               "last"))} :
           /\ Commit(w, CallRecord(w, "dataChanges_upload",
                                   [isname |-> isname, wait |-> wait, n |-> n,
                                    file |-> file, createStatus |-> createStatus,
                                    runStatus |-> runStatus],
                                   w.ret))
           /\ activity' = IF \E i \in 1..Len(w.sent) :
                                 /\ w.sent[i].url = ActivitiesUrl(<<"a">>)
                                 /\ w.sent[i].answer = 201
                            THEN "New" ELSE activity
           /\ upload' = IF w.raised # NoError
                           THEN [Idle EXCEPT !.pc = "failed", !.wait = wait]
                         ELSE IF ~wait THEN [Idle EXCEPT !.pc = "done"]
                         ELSE [Idle EXCEPT !.pc = "sleep", !.wait = TRUE, !.started = now]
    /\ UNCHANGED <<revoked, threads>>

(* time.sleep(10) *)
Sleep ==
    /\ upload.pc = "sleep"
    /\ Len(upload.seen) < MaxPolls \/ ~StillRunning(activity)
    /\ now' = now + SleepSeconds
    /\ upload' = [upload EXCEPT !.pc = "poll"]
    /\ UNCHANGED <<bearer_token, bearer_token_timestamp, CONTENT_APP_JSON, CONTENT_FORM,
                   idp_status, issued, issuedAt, revoked, call, activity, threads>>

PollStatuses == {200, 500, ConnectionError}

(* one pass of the loop after the sleep: read the activity, leave the loop *)
(* when its state is none of the four                                      *)
Poll ==
    /\ upload.pc = "poll"
    /\ \E status \in PollStatuses :
         \E w \in {dataChanges_activities_get(World, <<"a">>, ActivityId, status,
                                              activity)} :
           /\ bearer_token' = w.bearer_token
           /\ bearer_token_timestamp' = w.bearer_token_timestamp
           /\ CONTENT_APP_JSON' = w.CONTENT_APP_JSON
           /\ CONTENT_FORM' = w.CONTENT_FORM
           /\ issued' = w.issued
           /\ issuedAt' = w.issuedAt
           /\ call' = CallRecord(w, "dataChanges_activities_get", [status |-> status],
                                 w.ret)
           /\ upload' =
                 IF w.raised # NoError THEN [upload EXCEPT !.pc = "failed"]
                 ELSE IF w.ret = PyNone
                   THEN [upload EXCEPT !.pc = "failed"]     \* None['state']
                 ELSE [upload EXCEPT
                         !.seen = Append(@, w.ret.val.state.descriptor),
                         !.at = Append(@, now),
                         !.pc = IF StillRunning(w.ret.val.state.descriptor)
                                  THEN "sleep" ELSE "done"]
    /\ UNCHANGED <<now, idp_status, revoked, activity, threads>>

(* the tenant works on the activity *)
ActivityOrder == <<"New", "Queued", "Processing", "Loading", "Completed">>

ActivityAdvances ==
    /\ upload.pc \in {"sleep", "poll"}
    /\ StillRunning(activity)
    /\ \E next \in {"Queued", "Processing", "Loading", "Completed", "Failed"} :
         /\ \/ next = "Failed"
            \/ \E i, j \in 1..Len(ActivityOrder) :
                  i < j /\ ActivityOrder[i] = activity /\ ActivityOrder[j] = next
         /\ activity' = next
    /\ UNCHANGED <<bearer_token, bearer_token_timestamp, CONTENT_APP_JSON, CONTENT_FORM,
                   now, idp_status, issued, issuedAt, revoked, call, upload, threads>>

(* the command has ended *)
UploadReturn ==
    /\ upload.pc \in {"done", "failed"}
    /\ upload' = Idle
    /\ activity' = "none"
    /\ call' = NoCall
    /\ UNCHANGED <<bearer_token, bearer_token_timestamp, CONTENT_APP_JSON, CONTENT_FORM,
                   now, idp_status, issued, issuedAt, revoked, threads>>

NextTasks ==
    \/ DataChangesValidate
    \/ DataChangesActivitiesPost
    \/ UploadStart
    \/ Sleep
    \/ Poll
    \/ ActivityAdvances
    \/ UploadReturn
    \/ Return

SpecTasks == Init /\ [][NextTasks]_vars

(* the command runs on: neither the sleep nor the poll waits for anything *)
SpecTasksLive == SpecTasks /\ WF_vars(Sleep) /\ WF_vars(Poll)

----------------------------------------------------------------------------
(* Two threads that share one client and call get_bearer_token or          *)
(* create_bearer_token.  The methods take no lock, so the interpreter may  *)
(* switch threads between any two reads and writes of the client's fields: *)
(* every step below is one such read or write.                             *)

ThreadOps == {"get_bearer_token", "create_bearer_token"}

(* what no thread step touches *)
ThreadFrame == UNCHANGED <<CONTENT_APP_JSON, CONTENT_FORM, now, idp_status, revoked,
                           call, activity, upload>>

Step(t, next) == threads' = [threads EXCEPT ![t] = next]

ThreadCall ==
    \E t \in Threads, op \in ThreadOps :
        /\ threads[t].pc = "idle"
        /\ Step(t, [ThreadIdle EXCEPT !.op = op,
                                      !.pc = IF op = "get_bearer_token"
                                               THEN "test" ELSE "post"])
        /\ UNCHANGED <<bearer_token, bearer_token_timestamp, issued, issuedAt>>
        /\ ThreadFrame

(* get_bearer_token: self.bearer_token is None *)
ThreadReadToken ==
    \E t \in Threads :
        /\ threads[t].pc = "test"
        /\ Step(t, [threads[t] EXCEPT !.token = bearer_token,
                                      !.pc = IF bearer_token = None
                                               THEN "post" ELSE "age"])
        /\ UNCHANGED <<bearer_token, bearer_token_timestamp, issued, issuedAt>>
        /\ ThreadFrame

(* or (time.time() - self.bearer_token_timestamp) > 900 *)
ThreadReadStamp ==
    \E t \in Threads :
        /\ threads[t].pc = "age"
        /\ Step(t, [threads[t] EXCEPT
                       !.stamp = bearer_token_timestamp,
                       !.pc = IF bearer_token_timestamp = NoneInt THEN "raised"
                              ELSE IF TokenStale(threads[t].token, bearer_token_timestamp)
                                THEN "post"
                              ELSE "check"])
        /\ UNCHANGED <<bearer_token, bearer_token_timestamp, issued, issuedAt>>
        /\ ThreadFrame

(* create_bearer_token: r = self.http_post(url=self.token_endpoint, ...) *)
ThreadExchange ==
    \E t \in Threads :
        /\ threads[t].pc = "post"
        /\ ExchangeSucceeded(idp_status) => issued < MaxTokens
        /\ IF ExchangeSucceeded(idp_status)
             THEN /\ Step(t, [threads[t] EXCEPT !.resp = TokenPool[issued + 1],
                                                !.pc = "store_token"])
                  /\ issued' = issued + 1
                  /\ issuedAt' = (TokenPool[issued + 1] :> now) @@ issuedAt
             ELSE /\ Step(t, [threads[t] EXCEPT !.pc = "null_token"])
                  /\ UNCHANGED <<issued, issuedAt>>
        /\ UNCHANGED <<bearer_token, bearer_token_timestamp>>
        /\ ThreadFrame

(* self.bearer_token = r.json()["access_token"] *)
ThreadStoreToken ==
    \E t \in Threads :
        /\ threads[t].pc = "store_token"
        /\ bearer_token' = threads[t].resp
        /\ Step(t, [threads[t] EXCEPT !.pc = "store_stamp"])
        /\ UNCHANGED <<bearer_token_timestamp, issued, issuedAt>>
        /\ ThreadFrame

(* what a thread does after create_bearer_token *)
AfterCreate(t) == IF threads[t].op = "get_bearer_token" THEN "check" ELSE "done"

(* self.bearer_token_timestamp = time.time() *)
ThreadStoreStamp ==
    \E t \in Threads :
        /\ threads[t].pc = "store_stamp"
        /\ bearer_token_timestamp' = now
        /\ Step(t, [threads[t] EXCEPT !.pc = AfterCreate(t)])
        /\ UNCHANGED <<bearer_token, issued, issuedAt>>
        /\ ThreadFrame

(* the else branch: self.bearer_token = None *)
ThreadNullToken ==
    \E t \in Threads :
        /\ threads[t].pc = "null_token"
        /\ bearer_token' = None
        /\ Step(t, [threads[t] EXCEPT !.pc = "null_stamp"])
        /\ UNCHANGED <<bearer_token_timestamp, issued, issuedAt>>
        /\ ThreadFrame

(* self.bearer_token_timestamp = None *)
ThreadNullStamp ==
    \E t \in Threads :
        /\ threads[t].pc = "null_stamp"
        /\ bearer_token_timestamp' = NoneInt
        /\ Step(t, [threads[t] EXCEPT !.pc = AfterCreate(t)])
        /\ UNCHANGED <<bearer_token, issued, issuedAt>>
        /\ ThreadFrame

(* if self.bearer_token is None: return "" *)
ThreadCheck ==
    \E t \in Threads :
        /\ threads[t].pc = "check"
        /\ Step(t, IF bearer_token = None
                     THEN [threads[t] EXCEPT !.ret = EmptyStr, !.cached = None,
                                             !.pc = "done"]
                     ELSE [threads[t] EXCEPT !.pc = "load"])
        /\ UNCHANGED <<bearer_token, bearer_token_timestamp, issued, issuedAt>>
        /\ ThreadFrame

(* return self.bearer_token: the attribute is read *)
ThreadLoad ==
    \E t \in Threads :
        /\ threads[t].pc = "load"
        /\ Step(t, [threads[t] EXCEPT !.ret = bearer_token, !.pc = "return"])
        /\ UNCHANGED <<bearer_token, bearer_token_timestamp, issued, issuedAt>>
        /\ ThreadFrame

(* and handed to the caller; cached is the field at that moment *)
ThreadReturn ==
    \E t \in Threads :
        /\ threads[t].pc = "return"
        /\ Step(t, [threads[t] EXCEPT !.cached = bearer_token, !.pc = "done"])
        /\ UNCHANGED <<bearer_token, bearer_token_timestamp, issued, issuedAt>>
        /\ ThreadFrame

(* the caller goes on; it may call again *)
ThreadEnd ==
    \E t \in Threads :
        /\ threads[t].pc \in {"done", "raised"}
        /\ Step(t, ThreadIdle)
        /\ UNCHANGED <<bearer_token, bearer_token_timestamp, issued, issuedAt>>
        /\ ThreadFrame

NextThreads ==
    \/ ThreadCall
    \/ ThreadReadToken
    \/ ThreadReadStamp
    \/ ThreadExchange
    \/ ThreadStoreToken
    \/ ThreadStoreStamp
    \/ ThreadNullToken
    \/ ThreadNullStamp
    \/ ThreadCheck
    \/ ThreadLoad
    \/ ThreadReturn
    \/ ThreadEnd
    \/ Tick
    \/ SetIdp

SpecThreads == Init /\ [][NextThreads]_vars

----------------------------------------------------------------------------
(* Properties of the token cache and the gateway *)

GatewayOps == {"http_get", "http_post", "http_patch", "http_put"}

IsExchange(r) == r.url = token_endpoint

CarriedToken(r) == Tail(r.headers["Authorization"])

CachedOrEmpty == IF bearer_token = None THEN EmptyStr ELSE bearer_token

(* C1: every authenticated request carries the token get_bearer_token()    *)
(* yields at that moment: the cached token, issued no more than 900        *)
(* seconds ago and not dropped by reset_bearer_token, or a new one.        *)
C1_RequestCarriesCurrentToken ==
    \A i \in 1..Len(call.sent) :
        ~IsExchange(call.sent[i]) =>
            /\ "Authorization" \in DOMAIN call.sent[i].headers
            /\ CarriedToken(call.sent[i]) = CachedOrEmpty
            /\ CarriedToken(call.sent[i]) # EmptyStr =>
                  /\ now - issuedAt[CarriedToken(call.sent[i])] <= TokenLifetime
                  /\ CarriedToken(call.sent[i]) \notin revoked

(* C2: a get_bearer_token() call no later than 900 seconds after the       *)
(* exchange that issued the cached token returns that token and performs   *)
(* no exchange; a later call performs a new exchange.                      *)
C2_TokenReusedWithinLifetime ==
    (call.op = "get_bearer_token" /\ call.before.token # None) =>
        /\ call.before.timestamp = issuedAt[call.before.token]
        /\ now - issuedAt[call.before.token] <= TokenLifetime =>
              /\ call.raised = NoError
              /\ call.ret = PyStr(call.before.token)
              /\ bearer_token = call.before.token
              /\ call.exchanges = 0
              /\ call.sent = <<>>
        /\ now - issuedAt[call.before.token] > TokenLifetime =>
              /\ call.exchanges = 1
              /\ IsExchange(call.sent[1])

C2_Witness ==
    /\ call.op = "get_bearer_token"
    /\ call.before.token # None
    /\ now - issuedAt[call.before.token] = TokenLifetime
    /\ call.ret = PyStr(call.before.token)

(* C3: an exchange answered with a non-200 status raises nothing and       *)
(* leaves token and timestamp None; get_bearer_token then returns "", and  *)
(* a get_bearer_token call that finds no token attempts the exchange.      *)
C3_FailedExchangeNullsToken ==
    /\ (/\ call.op \in {"get_bearer_token", "create_bearer_token"}
        /\ call.sent # <<>>
        /\ call.sent[1].answer # 200)
          => /\ call.raised = NoError
             /\ bearer_token = None
             /\ bearer_token_timestamp = NoneInt
             /\ call.op = "get_bearer_token" => call.ret = PyStr(EmptyStr)
    /\ (call.op = "get_bearer_token" /\ call.before.token = None)
          => call.exchanges = 1 /\ IsExchange(call.sent[1])

C3_Witness ==
    /\ call.op = "get_bearer_token"
    /\ call.before.token # None
    /\ call.sent # <<>>
    /\ call.sent[1].answer = 401
    /\ call.ret = PyStr(EmptyStr)

(* C4: every gateway request carries Authorization: Bearer <token>,        *)
(* except the token-exchange POST, which carries none; a gateway call      *)
(* calls get_bearer_token at most once and causes at most one exchange,    *)
(* and the exchange never calls the gateway's token lookup again.          *)
C4_BearerOnAllButExchange ==
    /\ \A i \in 1..Len(call.sent) :
          IF IsExchange(call.sent[i])
            THEN "Authorization" \notin DOMAIN call.sent[i].headers
            ELSE /\ "Authorization" \in DOMAIN call.sent[i].headers
                 /\ Head(call.sent[i].headers["Authorization"]) = "Bearer "
                 /\ CarriedToken(call.sent[i]) \in Tokens \cup {EmptyStr}
    /\ call.raised # "RecursionError"
    /\ call.op \in GatewayOps \cup {"tables_patch"} =>
          call.gets <= 1 /\ call.exchanges <= 1

C4_Witness ==
    /\ call.op = "http_post"
    /\ Len(call.sent) = 2
    /\ IsExchange(call.sent[1])
    /\ call.sent[2].headers["Authorization"] = Bearer(bearer_token)

(* C5: no gateway call raises: for every URL, a missing one included, and  *)
(* for a network error, the caller gets a response whose status code it    *)
(* can read (600 for a missing URL).                                       *)
C5_GatewayNeverRaises ==
    call.op \in GatewayOps =>
        /\ call.raised = NoError
        /\ UrlMissing(call.args.url) =>
              call.ret.kind = "response" /\ call.ret.status_code = MissingUrlStatus

----------------------------------------------------------------------------
(* Properties of the list, search and query calls *)

ListOps == {"tables_get", "buckets_get", "dataChanges_get", "wql_dataSources",
            "wql_dataSources_fields", "wql_data"}
Listers == {"tables_get", "buckets_get", "dataChanges_get", "wql_dataSources"}

(* the requests of the call other than the token exchange *)
PageRequests == SelectSeq(call.sent, LAMBDA r : ~IsExchange(r))

(* the call pages through a collection: it is no lookup by id *)
IsListing ==
    /\ call.op \in ListOps
    /\ call.op \in Listers => call.args.id = None
    /\ call.op = "wql_dataSources_fields" => call.args.id # None

ReturnsCollection ==
    /\ call.raised = NoError
    /\ call.ret.kind = "json"
    /\ call.ret.val.kind = "page"

(* what the tenant holds behind the j-th request of the call *)
PageOf(j) ==
    ServerPage(Env(call.args.n, [failAt |-> 0, failStatus |-> 200], call.args.dup),
               PageRequests[j].url).data

(* the client-side filter the call's arguments ask for *)
Wanted(i) ==
    CASE call.op = "tables_get" ->
           call.args.name # None => TableMatches(call.args.name, i)
      [] call.op = "buckets_get" ->
           BucketMatches(call.args.name, call.args.table_name, TRUE, i)
      [] call.op = "dataChanges_get" ->
           (call.args.name # None /\ call.args.search)
              => DataChangeMatches(call.args.name, i)
      [] OTHER -> TRUE

RECURSIVE MatchesOfPages(_)
MatchesOfPages(k) ==
    IF k = 0 THEN <<>>
    ELSE MatchesOfPages(k - 1) \o SelectSeq(PageOf(k), Wanted)

(* C6: when the k-th page request of a list, search or query call is       *)
(* answered with a non-200 status, the call sends nothing after it, raises *)
(* nothing and returns a collection with total = len(data) that holds the  *)
(* matches of the k-1 pages before it, none when k = 1.                    *)
C6_ErrorPageStopsPaging ==
    (IsListing /\ \E k \in 1..Len(PageRequests) : PageRequests[k].answer # 200) =>
        /\ PageRequests[Len(PageRequests)].answer # 200
        /\ \A j \in 1..(Len(PageRequests) - 1) : PageRequests[j].answer = 200
        /\ ReturnsCollection
        /\ call.ret.val.total = Len(call.ret.val.data)
        /\ call.ret.val.data = MatchesOfPages(Len(PageRequests) - 1)

(* C7: every collection a list, search or query call returns has           *)
(* total = len(data), also when a page request failed after pages were     *)
(* accumulated.                                                            *)
C7_TotalIsLenData ==
    (call.op \in ListOps /\ ReturnsCollection) =>
        call.ret.val.total = Len(call.ret.val.data)

(* the page size and the size of the collection a call pages through *)
PageSize == PageRequests[1].url.paging[1].limit
Selected == Len(ServerItems(call.args.n, PageRequests[1].url.filter))

(* a search, or a listing of everything from the first item on *)
IsSearchOrListAll ==
    /\ call.op \in Listers
    /\ call.args.id = None
    /\ CASE call.op = "tables_get" ->
               call.args.limit = NoneInt
                 \/ (call.args.search /\ call.args.offset = NoneInt)
          [] call.op = "buckets_get" -> call.args.name = None \/ call.args.search
          [] call.op = "dataChanges_get" ->
               \/ call.args.name # None /\ call.args.search
               \/ /\ call.args.name = None
                  /\ call.args.limit = NoneInt
                  /\ call.args.offset = NoneInt
          [] OTHER -> call.args.limit = NoneInt

(* C8: a search or list-all over N items with page size P, the last page   *)
(* short and every page answered 200, sends ceil(N/P) page requests and    *)
(* returns a collection with total = len(data).                            *)
C8_CeilPagesRequested ==
    (IsSearchOrListAll /\ call.args.failAt = 0 /\ Selected % PageSize # 0) =>
        /\ ReturnsCollection
        /\ Len(PageRequests) = (Selected + PageSize - 1) \div PageSize
        /\ call.ret.val.total = Len(call.ret.val.data)

(* C9: a lister called with an id sends one request, for that resource and *)
(* with no name, limit, offset or search in it, and returns the resource   *)
(* when the answer is 200 and None otherwise.                              *)
C9_IdLookupOneRequest ==
    (call.op \in Listers /\ call.args.id # None) =>
        /\ Len(PageRequests) = 1
        /\ PageRequests[1].url.path[Len(PageRequests[1].url.path)] = call.args.id
        /\ PageRequests[1].url.filter = NoFilter
        /\ PageRequests[1].url.paging = <<>>
        /\ call.raised = NoError
        /\ call.ret = IF PageRequests[1].answer = 200
                        THEN PyJson(ServerResource(call.args.id))
                        ELSE PyNone

(* C10: with a name, search off and no id, tables_get, buckets_get and     *)
(* dataChanges_get send one request with limit=1, offset=0 and the name as *)
(* the server-side filter, whatever the caller's limit, and return the     *)
(* server's page of at most one member.                                    *)
C10_ExactNameOneRequest ==
    (/\ call.op \in {"tables_get", "buckets_get", "dataChanges_get"}
     /\ call.args.id = None
     /\ call.args.name # None
     /\ ~call.args.search) =>
        /\ Len(PageRequests) = 1
        /\ PageRequests[1].url.paging = <<[limit |-> 1, offset |-> 0]>>
        /\ PageRequests[1].url.filter.key = "name"
        /\ Unquote(PageRequests[1].url.filter.val) = call.args.name
        /\ PageRequests[1].answer = 200 =>
              /\ ReturnsCollection
              /\ call.ret.val.data = PageOf(1)
              /\ Len(call.ret.val.data) <= 1

----------------------------------------------------------------------------
(* Properties of buckets, file containers and load schemas *)

IsCompletePost(r) == r.verb = "POST" /\ r.url = CompleteUrl(call.args.id)

(* C11: completing a bucket whose state is not New is rejected before any  *)
(* network call: no POST to the bucket's complete endpoint goes out for a  *)
(* bucket that is Processing, Loaded or in Error.                          *)
C11_CompleteOnlyNew ==
    (/\ call.op \in {"buckets_complete", "buckets_complete_command"}
     /\ call.args.id # None
     /\ call.args.state # "New") =>
        \A i \in 1..Len(call.sent) : ~IsCompletePost(call.sent[i])

(* the POST that creates a bucket, the POST that creates a container, and  *)
(* the uploads of the call                                                 *)
CreatePosts == SelectSeq(call.sent, LAMBDA r : r.verb = "POST" /\ r.url = BucketsCreateUrl)
ContainerPosts ==
    SelectSeq(call.sent, LAMBDA r : r.verb = "POST" /\ r.url = FileContainersUrl)
Uploads == SelectSeq(call.sent, LAMBDA r : "file" \in DOMAIN r)

Malformed(fields) ==
    \E i \in 1..Len(fields) : {"name", "externalId"} \ DOMAIN fields[i] # {}

(* the table schema buckets_create is asked to work from *)
SourceTable ==
    IF call.op = "buckets_create"
      THEN IF call.args.schema.kind \in {"dict", "file"}
             THEN call.args.schema.val ELSE call.args.doc
      ELSE call.args.table

TargetUnresolved ==
    \/ call.args.target = "id" /\ call.args.failAt = 1
    \/ call.args.target = "name" /\ (call.args.failAt = 1 \/ call.args.n = 0)

NothingGiven == call.args.target = "none" /\ call.args.schema.kind = "None"

SchemaInvalid ==
    \/ call.args.schema.kind \in {"nofile", "other"}
    \/ /\ call.args.schema.kind \in {"dict", "file"}
       /\ \/ {"id", "fields"} \ DOMAIN call.args.schema.val # {}
          \/ Malformed(call.args.schema.val["fields"])

(* C12: buckets_create returns the created bucket when the creation POST   *)
(* is answered 201 and None in every other case; with the target table not *)
(* resolved, nothing to work from, or an invalid schema, it returns None,  *)
(* sends no creation POST and raises nothing.                              *)
C12_CreateReturnsBucketOrNone ==
    call.op = "buckets_create" =>
        /\ call.raised = NoError
        /\ Len(CreatePosts) <= 1
        /\ call.ret = IF Len(CreatePosts) = 1 /\ CreatePosts[1].answer = 201
                        THEN PyJson(OpaqueBody) ELSE PyNone
        /\ (TargetUnresolved \/ NothingGiven \/ SchemaInvalid) => CreatePosts = <<>>

(* C13: one fileContainers_load call creates at most one container, none   *)
(* when an id is given; all its uploads go to one container, the one given *)
(* or created, and that is the id in the result.                           *)
C13_OneContainerPerLoad ==
    call.op = "fileContainers_load" =>
        /\ Len(ContainerPosts) <= 1
        /\ call.args.id # None => ContainerPosts = <<>>
        /\ \A i \in 1..Len(Uploads) :
              /\ Uploads[i].url = Uploads[1].url
              /\ Uploads[i].url = ContainerFilesUrl(IF call.args.id # None
                                                      THEN call.args.id
                                                      ELSE NewContainer.id)
              /\ (call.raised = NoError /\ call.ret.kind = "json") =>
                    Uploads[i].url = ContainerFilesUrl(call.ret.val.id)

C13_Witness ==
    /\ call.op = "fileContainers_load"
    /\ call.args.id = None
    /\ Len(ContainerPosts) = 1
    /\ Len(Uploads) = 3
    /\ call.ret.kind = "json"
    /\ call.ret.val.id = NewContainer.id
    /\ call.ret.val.total = 3

(* the upload results a call should hand back: one per upload answered 201 *)
RECURSIVE Uploaded(_)
Uploaded(k) ==
    IF k = 0 THEN <<>>
    ELSE IF Uploads[k].answer = 201
      THEN Append(Uploaded(k - 1), [name |-> Uploads[k].file])
    ELSE Uploaded(k - 1)

(* C14: fileContainers_load returns the container id with the per-file     *)
(* results and no failed step stops it: every resolved file is uploaded    *)
(* once, and only the files whose upload failed are missing from the       *)
(* results.                                                                *)
C14_EveryFileAttempted ==
    call.op = "fileContainers_load" =>
        /\ call.raised = NoError
        /\ call.ret.kind = "json"
        /\ Len(Uploads) = Len(resolve_file_list(call.args.file))
        /\ \A k \in 1..Len(Uploads) :
              Uploads[k].source = resolve_file_list(call.args.file)[k]
        /\ call.ret.val.data = Uploaded(Len(Uploads))
        /\ call.ret.val.total = Len(call.ret.val.data)

(* a call that produced a load schema, and the schema *)
ProducesSchema ==
    \/ /\ call.op \in {"table_to_bucket_schema", "table_to_bucket_schema_again"}
       /\ call.raised = NoError
       /\ call.ret.kind = "json"
    \/ call.op = "buckets_create" /\ CreatePosts # <<>>

ProducedSchema ==
    IF call.op = "buckets_create" THEN CreatePosts[1].data.schema.val ELSE call.ret.val

(* C15: in every load schema produced, by table_to_bucket_schema or sent   *)
(* by buckets_create, the i-th field has ordinal i.                        *)
C15_OrdinalsSequential ==
    ProducesSchema =>
        \A i \in 1..Len(ProducedSchema.fields) : ProducedSchema.fields[i]["ordinal"] = i

(* a field as name and original position *)
Ident(fields) == [i \in 1..Len(fields) |-> <<fields[i]["name"], fields[i]["ordinal"]>>]

(* C16: table_to_bucket_schema removes the fields whose name starts with   *)
(* WPA_ and no other, and keeps the order of the rest.                     *)
C16_RemovesAuditPrefixOnly ==
    (call.op = "table_to_bucket_schema" /\ ProducesSchema) =>
        Ident(call.ret.val.fields) = Ident(SelectSeq(call.args.table["fields"], NotManaged))

(* C17: every field table_to_bucket_schema keeps has useAsOperationKey     *)
(* true when the source field's externalId is true and false when it is    *)
(* false.                                                                  *)
C17_OperationKeyIsExternalId ==
    (call.op = "table_to_bucket_schema" /\ ProducesSchema) =>
        LET kept == SelectSeq(call.args.table["fields"],
                              LAMBDA f : \E i \in 1..Len(call.ret.val.fields) :
                                  <<f["name"], f["ordinal"]>> = Ident(call.ret.val.fields)[i])
        IN  /\ Len(kept) = Len(call.ret.val.fields)
            /\ \A i \in 1..Len(kept) :
                  call.ret.val.fields[i]["useAsOperationKey"] = kept[i]["externalId"]

C17_Witness ==
    /\ call.op = "table_to_bucket_schema"
    /\ ProducesSchema
    /\ Len(call.ret.val.fields) = 2
    /\ call.ret.val.fields[1]["useAsOperationKey"] = TRUE
    /\ call.ret.val.fields[2]["useAsOperationKey"] = FALSE
    /\ call.args.table["fields"][1]["externalId"] = TRUE

(* C18: table_to_bucket_schema applied to its own output succeeds and      *)
(* gives the same fields with the same ordinals.                           *)
C18_TransformIdempotent ==
    call.op = "table_to_bucket_schema_again" =>
        /\ call.raised = NoError
        /\ call.ret.kind = "json"
        /\ Ident(call.ret.val.fields) = Ident(call.args.table.fields)

(* C19: the load schema has the source table's parseOptions when the table *)
(* has them, the default ones otherwise, and the schemaVersion marker,     *)
(* from table_to_bucket_schema and in what buckets_create sends.           *)
C19_ParseOptionsCarried ==
    (call.op \in {"table_to_bucket_schema", "buckets_create"} /\ ProducesSchema) =>
        /\ ProducedSchema.schemaVersion = [id |-> <<"Schema_Version=1.0">>]
        /\ ProducedSchema.parseOptions =
              IF "parseOptions" \in DOMAIN SourceTable
                THEN SourceTable["parseOptions"]
                ELSE DefaultParseOptions

(* C20: table_to_bucket_schema returns None and raises nothing when the    *)
(* table is None, has no fields, or has a field without name or            *)
(* externalId.                                                             *)
C20_MalformedTableGivesNone ==
    (/\ call.op = "table_to_bucket_schema"
     /\ \/ call.args.table = PyNone
        \/ "fields" \notin DOMAIN call.args.table
        \/ Malformed(call.args.table["fields"])) =>
        call.raised = NoError /\ call.ret = PyNone

----------------------------------------------------------------------------
(* Properties of reset, retries and the search arguments *)

TokenCleared == bearer_token = None /\ bearer_token_timestamp = NoneInt

(* C30: reset_bearer_token leaves token and timestamp None, they stay None  *)
(* until the client is called again, and a get_bearer_token call that comes *)
(* next performs a token exchange, however young the dropped token was.     *)
C30_ResetForcesExchange ==
    [][/\ call'.op = "reset_bearer_token" => TokenCleared'
       /\ (TokenCleared /\ call'.op = "none") => TokenCleared'
       /\ (TokenCleared /\ call'.op = "get_bearer_token") =>
              /\ call'.exchanges = 1
              /\ IsExchange(call'.sent[1])]_vars

C30_Witness ==
    /\ call.op = "get_bearer_token"
    /\ call.before.token = None
    /\ call.exchanges = 1
    /\ bearer_token # None
    /\ \E t \in revoked : now - issuedAt[t] < TokenLifetime

(* the row window the caller's limit asks for *)
RowWindow ==
    IF call.args.limit = NoneInt \/ call.args.limit > 10000 THEN 10000
    ELSE call.args.limit

PagingOfRequest(j) == PageRequests[j].url.paging[1]

C27_LimitBoundsResult ==
    (/\ call.op \in {"tables_get", "buckets_get"}
     /\ call.args.id = None
     /\ call.args.limit # NoneInt
     /\ ReturnsCollection) =>
        Len(call.ret.val.data) <= call.args.limit

(* the search string occurs in the name or the display name, whatever the  *)
(* case of either                                                          *)
KeptBySearch(i) ==
    \/ Contains(Lower(call.args.name), Lower(ItemName(i)))
    \/ Contains(Lower(call.args.name), Lower(ItemDisplayName(i)))

AnsweredPages == Len(SelectSeq(PageRequests, LAMBDA r : r.answer = 200))

RECURSIVE SearchMatches(_)
SearchMatches(k) ==
    IF k = 0 THEN <<>>
    ELSE SearchMatches(k - 1) \o SelectSeq(PageOf(k), KeptBySearch)

(* C28: a search by name with tables_get, buckets_get or dataChanges_get   *)
(* keeps, of every page it fetched, exactly the resources whose name or    *)
(* display name holds the search string, compared without regard to case.  *)
C28_SearchIgnoresCase ==
    (/\ call.op \in {"tables_get", "buckets_get", "dataChanges_get"}
     /\ call.args.id = None
     /\ call.args.name # None
     /\ call.args.search
     /\ ReturnsCollection) =>
        call.ret.val.data = SearchMatches(AnsweredPages)

(* C29: with search on and an offset given, the first page request of      *)
(* tables_get, buckets_get and dataChanges_get asks for offset 0, whatever *)
(* the limit.                                                              *)
C29_SearchRestartsAtZero ==
    (/\ call.op \in {"tables_get", "buckets_get", "dataChanges_get"}
     /\ call.args.id = None
     /\ call.args.search
     /\ call.args.offset # NoneInt
     /\ PageRequests # <<>>) =>
        PagingOfRequest(1).offset = 0

(* C25: no call repeats a request: the requests of one call differ from    *)
(* one another, a request answered with a failure is the last of its call, *)
(* and a call of get_bearer_token attempts the exchange at most once.      *)
C25_NoRetry ==
    /\ \A i, j \in 1..Len(PageRequests) :
          i # j => PageRequests[i].url # PageRequests[j].url
    /\ \A i \in 1..(Len(PageRequests) - 1) : PageRequests[i].answer \in {200, 201}
    /\ call.exchanges <= call.gets

(* the fields of the schema a request carries: the table schema of a       *)
(* create or update, the load schema of a bucket                           *)
FieldsSent(r) ==
    IF "schema" \in DOMAIN r.data THEN r.data["schema"].val.fields
    ELSE r.data["fields"]

SchemaRequests == SelectSeq(call.sent, LAMBDA r : "data" \in DOMAIN r)

(* C21: no request of tables_post, tables_put or buckets_create carries a  *)
(* field whose name starts with WPA_, whatever schema the caller gave or   *)
(* the tenant returned for the target table.                               *)
C21_NoManagedFieldSent ==
    call.op \in {"tables_post", "tables_put", "buckets_create"} =>
        \A i \in 1..Len(SchemaRequests) :
            \A k \in 1..Len(FieldsSent(SchemaRequests[i])) :
                ~StartsWith(FieldsSent(SchemaRequests[i])[k]["name"], <<"W", "P", "A", "_">>)

C21_Witness ==
    /\ call.op = "tables_put"
    /\ Len(SchemaRequests) = 1
    /\ Len(FieldsSent(SchemaRequests[1])) = 1
    /\ Len(call.args.schema["fields"]) = 2
    /\ call.args.schema["fields"][1]["name"] = <<"W", "P", "A", "_", "x">>

(* the POSTs of a create, upload, complete sequence, in the order sent *)
SequencePosts ==
    SelectSeq(call.args.earlier \o call.sent,
              LAMBDA r : r.verb = "POST" /\ r.url # token_endpoint)

(* the state of the bucket on the tenant after the requests it accepted *)
RECURSIVE BucketStateAfter(_)
BucketStateAfter(reqs) ==
    IF reqs = <<>> THEN "none"
    ELSE LET r == reqs[Len(reqs)]
             prev == BucketStateAfter(SubSeq(reqs, 1, Len(reqs) - 1))
         IN  IF r.url = BucketsCreateUrl /\ r.answer = 201 THEN "New"
             ELSE IF r.url = CompleteUrl(BucketId) /\ r.answer = 201 /\ prev = "New"
               THEN "Completing"
             ELSE prev

(* C22: buckets_create for TruncateAndInsert, buckets_files with no file   *)
(* and buckets_complete send, in this order, the creation POST, one upload *)
(* POST with a zero-byte file and the complete POST; when each is accepted *)
(* the bucket goes from New to Completing and the bucket is returned.      *)
C22_TruncateSequence ==
    (/\ call.op = "buckets_complete"
     /\ "earlier" \in DOMAIN call.args
     /\ call.args.file = FilesNone) =>
        /\ Len(SequencePosts) = 3
        /\ SequencePosts[1].url = BucketsCreateUrl
        /\ SequencePosts[1].data.operation.id
              = <<"Operation_Type=", "TruncateAndInsert">>
        /\ SequencePosts[2].url = BucketFilesUrl(BucketId)
        /\ SequencePosts[2].size = 0
        /\ SequencePosts[3].url = CompleteUrl(BucketId)
        /\ (\A i \in 1..3 : SequencePosts[i].answer = 201) =>
              /\ BucketStateAfter(SubSeq(SequencePosts, 1, 2)) = "New"
              /\ BucketStateAfter(SequencePosts) = "Completing"
              /\ call.raised = NoError
              /\ call.ret = PyJson(OpaqueBody)

C22_Witness ==
    /\ call.op = "buckets_complete"
    /\ "earlier" \in DOMAIN call.args
    /\ call.args.file = FilesNone
    /\ \A i \in 1..3 : SequencePosts[i].answer = 201
    /\ SequencePosts[2].file = <<"empty">>
    /\ call.ret = PyJson(OpaqueBody)

----------------------------------------------------------------------------
(* Properties of data change tasks and the upload command *)

(* what the tenant answered the one request of the call with *)
Answered == PageRequests # <<>> /\ PageRequests[1].answer # ConnectionError

AnswerBody(ok) ==
    IF PageRequests[1].answer \in {200, 201} THEN ok
    ELSE ErrorBody(PageRequests[1].answer)

(* C23: dataChanges_validate returns the parsed body of a 200, 400 or 404  *)
(* answer and dataChanges_activities_post that of a 201 or 400 answer, the *)
(* error document included; for every other status both return None; none  *)
(* of this raises.                                                         *)
C23_ErrorBodyReturned ==
    /\ (call.op = "dataChanges_validate" /\ Answered) =>
          /\ call.raised = NoError
          /\ call.ret = IF PageRequests[1].answer \in {200, 400, 404}
                          THEN PyJson(AnswerBody(ServerResource(<<"dct1">>)))
                          ELSE PyNone
    /\ (call.op = "dataChanges_activities_post" /\ Answered) =>
          /\ call.raised = NoError
          /\ call.ret = IF PageRequests[1].answer \in {201, 400}
                          THEN PyJson(AnswerBody(ActivityDoc("New")))
                          ELSE PyNone

C23_Witness ==
    /\ call.op = "dataChanges_validate"
    /\ Answered
    /\ PageRequests[1].answer = 404
    /\ call.ret = PyJson([kind |-> "error", error |-> 404])

Unfinished == {"New", "Queued", "Processing", "Loading"}

LastSeen == upload.seen[Len(upload.seen)]

(* what holds of the polls of an upload that waits, at every moment *)
PollsInOrder ==
    /\ \A k \in 1..Len(upload.seen) : upload.at[k] = upload.started + 10 * k
    /\ \A k \in 1..(Len(upload.seen) - 1) : upload.seen[k] \in Unfinished
    /\ (upload.wait /\ upload.pc = "done") => upload.seen # <<>>
    /\ upload.seen # <<>> =>
          /\ LastSeen \in Unfinished => upload.pc \in {"sleep", "poll", "failed"}
          /\ LastSeen \notin Unfinished => upload.pc = "done"

(* C26: a dataChanges upload that waits polls the activity every 10        *)
(* seconds and at least once, goes on while the state it polled is New,    *)
(* Queued, Processing or Loading and stops at the first other state; once  *)
(* the activity is in such a state the command comes to its end.           *)
C26_PollsUntilFinished ==
    /\ []PollsInOrder
    /\ (upload.pc \in {"sleep", "poll"} /\ activity \notin Unfinished)
          ~> (upload.pc \notin {"sleep", "poll"})

C26_Witness ==
    /\ upload.pc = "done"
    /\ Len(upload.seen) = 4
    /\ upload.seen[3] = "Loading"
    /\ upload.seen[4] = "Completed"
    /\ upload.at[4] = upload.started + 40

----------------------------------------------------------------------------
(* Properties of status codes, uploads, shared headers and schemas *)

CreateOps == {"tables_post", "buckets_create", "buckets_complete", "fileContainers_create"}
UpdateOps == {"tables_put", "tables_patch"}

IsIdLookup == call.op \in Listers /\ call.args.id # None

(* the request whose answer decides what the call returns *)
Operative == PageRequests[Len(PageRequests)]

SuccessCode == IF call.op \in CreateOps THEN 201 ELSE 200

StatusDecides ==
    /\ PageRequests # <<>>
    /\ Operative.answer # ConnectionError
    /\ \/ call.op \in CreateOps /\ Operative.verb = "POST"
       \/ call.op \in UpdateOps
       \/ IsIdLookup

(* C31: tables_post, buckets_create, buckets_complete and                  *)
(* fileContainers_create return the parsed body exactly when their request *)
(* is answered 201, tables_put, tables_patch and the lookups by id exactly *)
(* when it is answered 200; every other status, 2xx or not, gives None.    *)
C31_ExactStatusDecides ==
    StatusDecides =>
        /\ call.raised = NoError
        /\ Operative.answer = SuccessCode => call.ret.kind = "json"
        /\ Operative.answer # SuccessCode => call.ret = PyNone

(* a call that went into its page loop *)
IsPagedCall ==
    /\ call.op \in ListOps
    /\ PageRequests # <<>>
    /\ PageRequests[1].url.paging # <<>>

(* C32: every page loop comes to an end and raises nothing; each request   *)
(* carries one limit and one offset, the k-th asks for the start offset    *)
(* plus k times the limit, no offset is asked for twice, and no request    *)
(* follows a short page or an answer other than 200.                       *)
C32_PageLoopEnds ==
    IsPagedCall =>
        /\ call.raised = NoError
        /\ \A j \in 1..Len(PageRequests) :
              /\ Len(PageRequests[j].url.paging) = 1
              /\ PagingOfRequest(j).limit = PagingOfRequest(1).limit
              /\ PagingOfRequest(j).offset =
                    PagingOfRequest(1).offset + (j - 1) * PagingOfRequest(1).limit
        /\ \A i, j \in 1..Len(PageRequests) :
              i # j => PagingOfRequest(i).offset # PagingOfRequest(j).offset
        /\ \A j \in 1..(Len(PageRequests) - 1) :
              /\ PageRequests[j].answer = 200
              /\ Len(PageOf(j)) = PagingOfRequest(1).limit

(* the answers to the first k uploads that were accepted, in order *)
RECURSIVE Accepted(_)
Accepted(k) ==
    IF k = 0 THEN <<>>
    ELSE IF Uploads[k].answer = 201
      THEN Append(Accepted(k - 1), NewFile(TargetFiles(call.args.file)[k]))
    ELSE Accepted(k - 1)

(* C33: buckets_files sends one upload for every resolved file, in the     *)
(* order given and whatever became of the uploads before it, and returns   *)
(* the collection of the answers of the accepted uploads, in that order;   *)
(* a failed upload neither stops it nor makes it return None.              *)
C33_EveryUploadSent ==
    call.op = "buckets_files" =>
        /\ call.raised = NoError
        /\ call.ret.kind = "json"
        /\ Len(Uploads) = Len(TargetFiles(call.args.file))
        /\ \A k \in 1..Len(Uploads) :
              Uploads[k].file = NewFile(TargetFiles(call.args.file)[k]).file
        /\ call.ret.val.data = Accepted(Len(Uploads))
        /\ call.ret.val.total = Len(call.ret.val.data)

(* C34: after any sequence of gateway calls and public operations the      *)
(* client's two shared header dicts hold their Content-Type entry and      *)
(* nothing else.                                                           *)
C34_SharedHeadersKept ==
    /\ CONTENT_APP_JSON = ("Content-Type" :> <<"application/json">>)
    /\ CONTENT_FORM = ("Content-Type" :> <<"application/x-www-form-urlencoded">>)

TokenFields == <<bearer_token, bearer_token_timestamp>>

(* C35: bearer_token is None exactly when bearer_token_timestamp is None,  *)
(* whatever calls were made, so no call computes an age from a missing     *)
(* timestamp; the two fields change only in a call that exchanged a token  *)
(* (create_bearer_token) and in reset_bearer_token.                        *)
C35_TokenAndStampTogether ==
    [][/\ (bearer_token' = None) <=> (bearer_token_timestamp' = NoneInt)
       /\ call'.raised # "TypeError"
       /\ TokenFields' # TokenFields =>
              call'.exchanges > 0 \/ call'.op = "reset_bearer_token"]_vars

C35_Witness ==
    /\ call.op = "create_bearer_token"
    /\ call.before.token # None
    /\ call.before.timestamp # NoneInt
    /\ call.exchanges = 1
    /\ call.sent[1].answer = 401
    /\ bearer_token = None
    /\ bearer_token_timestamp = NoneInt

(* the schemas schema_fixup turns down *)
Rejected(schema) ==
    \/ "kind" \in DOMAIN schema
    \/ "id" \notin DOMAIN schema
    \/ schema["id"] = None
    \/ schema["id"] = <<>>
    \/ "fields" \notin DOMAIN schema
    \/ schema["fields"] = <<"n", "o", "l", "i", "s", "t">>

(* C36: tables_post and tables_put send nothing and return None when the   *)
(* schema is None, is no dict, has no non-empty string id or has no list   *)
(* of fields; a schema that is sent has no key but name, id, fields, tags, *)
(* displayName, description, documentation and enableForAnalysis.          *)
C36_RejectedSchemaNotSent ==
    call.op \in {"tables_post", "tables_put"} =>
        /\ Rejected(call.args.schema) =>
              /\ call.sent = <<>>
              /\ call.raised = NoError
              /\ call.ret = PyNone
        /\ \A i \in 1..Len(SchemaRequests) :
              DOMAIN SchemaRequests[i].data \subseteq
                  {"name", "id", "fields", "tags", "displayName", "description",
                   "documentation", "enableForAnalysis"}
        /\ (~Rejected(call.args.schema) /\ call.raised = NoError) =>
              /\ Len(SchemaRequests) = 1
              /\ {"id", "fields"} \subseteq DOMAIN SchemaRequests[1].data

C36_Witness ==
    /\ call.op = "tables_post"
    /\ Len(SchemaRequests) = 1
    /\ "parseOptions" \in DOMAIN call.args.schema
    /\ DOMAIN SchemaRequests[1].data = {"name", "id", "fields"}

(* the names a file argument holds *)
NamesGiven ==
    IF call.args.file.kind = "str" THEN {call.args.file.val}
    ELSE {call.args.file.val[i] : i \in 1..Len(call.args.file.val)}

(* a file argument was given and names no existing .csv or .csv.gz file *)
NothingToUpload ==
    /\ call.args.file.kind # "None"
    /\ NamesGiven \cap {<<"a", ".", "c", "s", "v">>,
                        <<"b", ".", "C", "S", "V", ".", "G", "Z">>} = {}

(* C37: buckets_files with no file argument uploads one file of zero bytes  *)
(* and with a file argument that names no existing .csv or .csv.gz file it  *)
(* sends nothing; fileContainers_load then creates no container and        *)
(* returns id None and total 0.                                            *)
C37_NothingToUpload ==
    /\ (call.op = "buckets_files" /\ call.args.file.kind = "None") =>
          /\ Len(PageRequests) = 1
          /\ Len(Uploads) = 1
          /\ Uploads[1].url = BucketFilesUrl(call.args.id)
          /\ Uploads[1].size = 0
    /\ (call.op = "buckets_files" /\ NothingToUpload) =>
          /\ call.sent = <<>>
          /\ call.raised = NoError
    /\ (call.op = "fileContainers_load" /\ NothingToUpload) =>
          /\ call.sent = <<>>
          /\ call.raised = NoError
          /\ call.ret = PyJson([id |-> None, total |-> 0, data |-> <<>>])

C37_Witness ==
    /\ call.op = "fileContainers_load"
    /\ call.args.id # None
    /\ call.args.file.kind = "list"
    /\ Len(call.args.file.val) = 2
    /\ NothingToUpload
    /\ call.ret = PyJson([id |-> None, total |-> 0, data |-> <<>>])

(* a thread that has read the token and then its timestamp *)
HasReadStamp(t) ==
    /\ threads[t].op = "get_bearer_token"
    /\ threads[t].token # None
    /\ threads[t].pc \notin {"idle", "test", "age"}

(* C38: with two threads in get_bearer_token or create_bearer_token on one *)
(* client, a thread that finds a token cached reads a timestamp that is    *)
(* set and was not written before that token was issued, and the value     *)
(* get_bearer_token hands back is a string and not a token a failed        *)
(* refresh has nulled by then.                                             *)
C38_RefreshAtomicForReaders ==
    \A t \in Threads :
        /\ HasReadStamp(t) =>
              /\ threads[t].stamp # NoneInt
              /\ threads[t].stamp >= issuedAt[threads[t].token]
        /\ threads[t].pc # "raised"
        /\ (threads[t].pc = "done" /\ threads[t].op = "get_bearer_token") =>
              /\ threads[t].ret # None
              /\ threads[t].ret # EmptyStr => threads[t].cached # None

====
